---- MODULE Spec2Model ----
(***************************************************************************)
(* SPCS-Visualization: the Transverse Mercator cylinder alignment, the     *)
(* projection dispatcher and the camera-orbit interpolation.               *)
(*                                                                         *)
(* Units.  Angles are integers in arc-seconds (1 degree = 3600); an angle  *)
(* a stands for the radian value a * pi / (180 * 3600) the code computes.  *)
(* A scale factor 1 - 1/D is the exact fraction (D-1)/D, kept as a pair    *)
(* [num, den].  Time is in clock units of a quarter of the default orbit   *)
(* duration.                                                               *)
(***************************************************************************)
EXTENDS Integers, Sequences, FiniteSets, TLC

(***************************************************************************)
(* JavaScript values of a parameter field: undefined, a string (sequence   *)
(* of one-character strings) or a number.                                  *)
(***************************************************************************)
Undef == [t |-> "undefined", s |-> <<>>, n |-> 0]

Str(chars) == [t |-> "string", s |-> chars, n |-> 0]

Num(k) == [t |-> "number", s |-> <<>>, n |-> k]

\* JavaScript truthiness: undefined, "" and 0 are falsy.
Truthy(v) ==
  CASE v.t = "undefined" -> FALSE
    [] v.t = "string" -> v.s # <<>>
    [] v.t = "number" -> v.n # 0

Digits == <<"0", "1", "2", "3", "4", "5", "6", "7", "8", "9">>

IsDigit(c) == \E d \in 1..10 : Digits[d] = c

IsSpace(c) == c = " "

DigitValue(c) == (CHOOSE d \in 1..10 : Digits[d] = c) - 1

\* Index just past the maximal run of digits of s that starts at i.
RECURSIVE DigitRunEnd(_, _)
DigitRunEnd(s, i) ==
  IF i <= Len(s) /\ IsDigit(s[i]) THEN DigitRunEnd(s, i + 1) ELSE i

\* Index just past the maximal run of white space of s that starts at i.
RECURSIVE SpaceRunEnd(_, _)
SpaceRunEnd(s, i) ==
  IF i <= Len(s) /\ IsSpace(s[i]) THEN SpaceRunEnd(s, i + 1) ELSE i

\* parseInt of a string of digits.
RECURSIVE DigitsToInt(_)
DigitsToInt(ds) ==
  IF ds = <<>> THEN 0
  ELSE 10 * DigitsToInt(SubSeq(ds, 1, Len(ds) - 1)) + DigitValue(ds[Len(ds)])

(***************************************************************************)
(* s.match(/(\d+)\s+(\d+)\s+([H])/) for a hemisphere class H, e.g. [WE].   *)
(* The pattern is not anchored: the leftmost position where it matches     *)
(* wins.  \d and \s are disjoint, so each + takes its whole run.           *)
(***************************************************************************)
MatchesAt(s, i, H) ==
  LET j == DigitRunEnd(s, i)
      k == SpaceRunEnd(s, j)
      l == DigitRunEnd(s, k)
      m == SpaceRunEnd(s, l)
  IN  /\ j > i
      /\ k > j
      /\ l > k
      /\ m > l
      /\ m <= Len(s)
      /\ s[m] \in H

NoMatch == [found |-> FALSE, deg |-> <<>>, min |-> <<>>, dir |-> ""]

\* The match that starts at the leftmost position from i on where one exists.
RECURSIVE MatchFrom(_, _, _)
MatchFrom(s, i, H) ==
  IF i > Len(s) THEN NoMatch
  ELSE IF MatchesAt(s, i, H)
  THEN LET j == DigitRunEnd(s, i)
           k == SpaceRunEnd(s, j)
           l == DigitRunEnd(s, k)
           m == SpaceRunEnd(s, l)
       IN  [found |-> TRUE,
            deg |-> SubSeq(s, i, j - 1),
            min |-> SubSeq(s, k, l - 1),
            dir |-> s[m]]
  ELSE MatchFrom(s, i + 1, H)

DmsMatch(s, H) == MatchFrom(s, 1, H)

\* degrees + minutes / 60, negated for the hemisphere `neg`, in arc-seconds.
SignedAngle(m, neg) ==
  LET angle == DigitsToInt(m.deg) * 3600 + DigitsToInt(m.min) * 60
  IN  IF m.dir = neg THEN 0 - angle ELSE angle

(***************************************************************************)
(* parseInt(s): leading white space, an optional sign, then the longest    *)
(* prefix of digits; NaN when there is no digit.                           *)
(***************************************************************************)
NaN == [nan |-> TRUE, n |-> 0]

ParseInt(s) ==
  LET a == SpaceRunEnd(s, 1)
      signed == a <= Len(s) /\ s[a] \in {"-", "+"}
      b == IF signed THEN a + 1 ELSE a
      e == DigitRunEnd(s, b)
      v == DigitsToInt(SubSeq(s, b, e - 1))
  IN  IF e = b THEN NaN
      ELSE [nan |-> FALSE, n |-> IF signed /\ s[a] = "-" THEN 0 - v ELSE v]

\* s.split('/')
RECURSIVE SplitSlash(_)
SplitSlash(s) ==
  IF \E i \in 1..Len(s) : s[i] = "/"
  THEN LET i == CHOOSE x \in 1..Len(s) :
                  s[x] = "/" /\ \A y \in 1..(x - 1) : s[y] # "/"
       IN  <<SubSeq(s, 1, i - 1)>> \o SplitSlash(SubSeq(s, i + 1, Len(s)))
  ELSE <<s>>

(***************************************************************************)
(* Calls made on the cylinder group and on the scene, in program order.    *)
(***************************************************************************)
Rotate(method, a) == [op |-> method, angle |-> a, num |-> 0, den |-> 1]

ScaleSet(k, d) == [op |-> "scale.set", angle |-> 0, num |-> k, den |-> d]

SceneAdd == [op |-> "scene.add", angle |-> 0, num |-> 0, den |-> 1]

\* Outcome of a stretch of code: the calls it made, and whether it raised.
Done(calls) == [raised |-> FALSE, calls |-> calls]

Raised(calls) == [raised |-> TRUE, calls |-> calls]

\* Sequential composition: what follows a raise does not run.
Then(a, b) ==
  IF a.raised THEN a ELSE [raised |-> b.raised, calls |-> a.calls \o b.calls]

\* cylinderGroup.rotateX(Math.PI / 2); cylinderGroup.rotateZ(Math.PI / 2)
BaseAlignment == Done(<<Rotate("rotateX", 90 * 3600), Rotate("rotateZ", 90 * 3600)>>)

\* Variant of the central-meridian step that turns by +cm instead of -cm.
CentralMeridianStepSameSign(params) ==
  LET cm == params.centralMeridian
  IN  IF ~Truthy(cm) THEN Done(<<>>)
      ELSE IF cm.t # "string" THEN Raised(<<>>)
      ELSE LET matches == DmsMatch(cm.s, {"W", "E"})
           IN  IF matches.found
               THEN Done(<<Rotate("rotateZ", SignedAngle(matches, "W"))>>)
               ELSE Done(<<>>)

\* 1. Rotate to Central Meridian (around Z-axis)
CentralMeridianStep(params) ==
  LET cm == params.centralMeridian
  IN  IF ~Truthy(cm) THEN Done(<<>>)
      ELSE IF cm.t # "string" THEN Raised(<<>>)   \* .match is not a function
      ELSE LET matches == DmsMatch(cm.s, {"W", "E"})
           IN  IF matches.found
               THEN Done(<<Rotate("rotateZ", 0 - SignedAngle(matches, "W"))>>)
               ELSE Done(<<>>)

\* 2. Rotate to Latitude of Origin (around Y-axis)
LatitudeOfOriginStep(params) ==
  LET lat == params.latitudeOfOrigin
  IN  IF ~Truthy(lat) THEN Done(<<>>)
      ELSE IF lat.t # "string" THEN Raised(<<>>)  \* .match is not a function
      ELSE LET matches == DmsMatch(lat.s, {"N", "S"})
           IN  IF matches.found
               THEN Done(<<Rotate("rotateY", SignedAngle(matches, "S"))>>)
               ELSE Done(<<>>)

\* The denominator read from params.scaleFactor; NaN also stands for undefined.
ScaleFactorNumber(sf) ==
  IF sf.t = "number" THEN [nan |-> FALSE, n |-> sf.n]
  ELSE IF sf.t = "string"
  THEN IF \E i \in 1..Len(sf.s) : sf.s[i] = "/"
       THEN LET parts == SplitSlash(sf.s)
            IN  IF Len(parts) = 2 THEN ParseInt(parts[2]) ELSE NaN
       ELSE ParseInt(sf.s)
  ELSE NaN

\* 3. Apply scale factor
ScaleFactorStep(params) ==
  LET sf == params.scaleFactor
  IN  IF ~Truthy(sf) THEN Done(<<>>)
      ELSE LET d == ScaleFactorNumber(sf)
           IN  IF ~d.nan /\ d.n # 0
               THEN Done(<<ScaleSet(d.n - 1, d.n)>>)
               ELSE Done(<<>>)

\* Variant of the zone alignment that scales first and turns to the latitude
\* of origin before the central meridian.
ZoneAlignmentReordered(zone) ==
  IF zone.spcsParams.present /\ zone.spcsParams.hasParams
  THEN LET params == zone.spcsParams.params
       IN  Then(ScaleFactorStep(params),
                Then(LatitudeOfOriginStep(params), CentralMeridianStep(params)))
  ELSE Done(<<>>)

\* Apply SPCS zone-specific rotations
ZoneAlignment(zone) ==
  IF zone.spcsParams.present /\ zone.spcsParams.hasParams
  THEN LET params == zone.spcsParams.params
       IN  Then(CentralMeridianStep(params),
                Then(LatitudeOfOriginStep(params), ScaleFactorStep(params)))
  ELSE Done(<<>>)

\* The calls of createTransverseMercatorCylinder(scene, zone), in order.
TransverseMercatorCalls(zone) ==
  Then(BaseAlignment, Then(ZoneAlignment(zone), Done(<<SceneAdd>>)))

One == [num |-> 1, den |-> 1]

\* The cylinder group after the calls: its rotations in order and its scale.
CylinderGroup(id, zone, calls) ==
  LET rot == SelectSeq(calls, LAMBDA c : c.op \in {"rotateX", "rotateY", "rotateZ"})
      sc == SelectSeq(calls, LAMBDA c : c.op = "scale.set")
      f == IF sc = <<>> THEN One
           ELSE [num |-> sc[Len(sc)].num, den |-> sc[Len(sc)].den]
  IN  [id |-> id, zone |-> zone.name, calls |-> rot, scale |-> <<f, One, f>>]

(***************************************************************************)
(* Zone records (processZoneData) and the projection dispatcher.           *)
(* A projection name "" stands for an absent (falsy) field.                *)
(***************************************************************************)
NoParams ==
  [centralMeridian |-> Undef, longitudeOfOrigin |-> Undef,
   latitudeOfOrigin |-> Undef, scaleFactor |-> Undef,
   scaleFactorDenominator |-> Undef, falseEasting |-> Undef, units |-> ""]

NoSpcsParams ==
  [present |-> FALSE, projectionType |-> "", hasParams |-> FALSE, params |-> NoParams]

LongName(code) ==
  CASE code = "TM" -> "Transverse Mercator"
    [] code = "LCC" -> "Lambert Conformal Conic"
    [] code = "OM" -> "Oblique Mercator"
    [] OTHER -> code

\* Variant of getProjectionType that reads the GeoJSON projection first and
\* the database record only when the feed names none.
getProjectionTypeFeedFirst(zone) ==
  IF zone.projection # ""
  THEN LongName(zone.projection)
  ELSE IF zone.spcsParams.present /\ zone.spcsParams.projectionType # ""
  THEN LongName(zone.spcsParams.projectionType)
  ELSE "Unknown Projection"

\* Helper function to get the projection type from zone data
getProjectionType(zone) ==
  IF zone.spcsParams.present /\ zone.spcsParams.projectionType # ""
  THEN LongName(zone.spcsParams.projectionType)
  ELSE IF zone.projection # ""
  THEN LongName(zone.projection)
  ELSE "Unknown Projection"

\* One console.log of logProjectionDetails: its label, the value it prints
\* and the rendering applied to it.
Logged(label, value, rendering) == [label |-> label, value |-> value, rendering |-> rendering]

\* The log lines for those of the fields whose test passes, in order.
LoggedWhere(lines, tests) ==
  SelectSeq([i \in DOMAIN lines |-> IF tests[i] THEN lines[i] ELSE Logged("", Undef, "")],
            LAMBDA l : l.label # "")

\* Variant of logProjectionDetails that reports the GeoJSON properties
\* whenever the feed carries a central meridian.
logProjectionDetailsFeedFirst(zone) ==
  IF zone.centralMeridian.t = "undefined" /\ zone.spcsParams.present /\ zone.spcsParams.hasParams
  THEN LET params == zone.spcsParams.params
       IN  <<Logged("Parameters (from database):", Undef, "")>>
           \o LoggedWhere(<<Logged("Central Meridian", params.centralMeridian, "")>>,
                          <<Truthy(params.centralMeridian)>>)
  ELSE <<Logged("Parameters (from GeoJSON):", Undef, "")>>
       \o LoggedWhere(<<Logged("Central Meridian", zone.centralMeridian, "toFixed(4)")>>,
                      <<zone.centralMeridian.t # "undefined">>)

\* logProjectionDetails(zone): the lines logged inside the console group.
logProjectionDetails(zone) ==
  IF zone.spcsParams.present /\ zone.spcsParams.hasParams
  THEN LET params == zone.spcsParams.params
       IN  <<Logged("Parameters (from database):", Undef, "")>>
           \o LoggedWhere(
                <<Logged("Central Meridian", params.centralMeridian, ""),
                  Logged("Longitude of Origin", params.longitudeOfOrigin, ""),
                  Logged("Latitude of Origin", params.latitudeOfOrigin, ""),
                  Logged("Scale Factor", params.scaleFactorDenominator, "1 - 1/d, toFixed(6)"),
                  Logged("False Easting", params.falseEasting, params.units)>>,
                <<Truthy(params.centralMeridian), Truthy(params.longitudeOfOrigin),
                  Truthy(params.latitudeOfOrigin), Truthy(params.scaleFactorDenominator),
                  Truthy(params.falseEasting)>>)
  ELSE <<Logged("Parameters (from GeoJSON):", Undef, "")>>
       \o LoggedWhere(
            <<Logged("Central Meridian", zone.centralMeridian, "toFixed(4)"),
              Logged("Latitude of Origin", zone.latitudeOfOrigin, "toFixed(4)")>>,
            <<zone.centralMeridian.t # "undefined", zone.latitudeOfOrigin.t # "undefined">>)

NoGroup == [id |-> 0, zone |-> "", calls |-> <<>>, scale |-> <<One, One, One>>]

\* createTransverseMercatorCylinder(scene, zone): returns {cylinderGroup, cylinder}
createTransverseMercatorCylinder(id, zone) ==
  LET r == TransverseMercatorCalls(zone)
  IN  [raised |-> r.raised,
       returned |-> IF r.raised THEN "none" ELSE "object",
       warned |-> FALSE,
       calls |-> r.calls,
       group |-> IF r.raised THEN NoGroup ELSE CylinderGroup(id, zone, r.calls)]

\* visualizeProjection(scene, zone): the switch on the projection type.
visualizeProjection(id, zone) ==
  LET projectionType == getProjectionType(zone)
      nothing(warn) == [raised |-> FALSE, returned |-> "null", warned |-> warn,
                        calls |-> <<>>, group |-> NoGroup]
  IN  CASE projectionType = "Transverse Mercator" ->
             createTransverseMercatorCylinder(id, zone)
        [] projectionType = "Lambert Conformal Conic" -> nothing(FALSE)
        [] projectionType = "Oblique Mercator" -> nothing(FALSE)
        [] OTHER -> nothing(TRUE)   \* console.warn(`Unsupported projection type: ...`)

\* scene.add(cylinderGroup) happened among the calls.
AddedToScene(r) == \E i \in 1..Len(r.calls) : r.calls[i] = SceneAdd

(***************************************************************************)
(* Camera orbit.  camera.position is kept as the spherical triple it was   *)
(* last set from (Vector3.setFromSpherical); reading it back               *)
(* (Spherical.setFromVector3) yields theta = atan2(x, z) and               *)
(* phi = acos(y / radius), computed here as IEEE arithmetic computes them. *)
(***************************************************************************)
Deg(d) == d * 3600

\* Remainder in 0 .. m-1, also for a negative a.
Mod(a, m) == ((a % m) + m) % m

\* atan2(x, z) of x = s*sin(theta), z = s*cos(theta) with s > 0.
Atan2Theta(theta) ==
  IF theta >= Deg(-180) /\ theta <= Deg(180) THEN theta
  ELSE LET w == Mod(theta, Deg(360))
       IN  IF w = Deg(180) THEN (IF theta > 0 THEN Deg(180) ELSE Deg(-180))
           ELSE IF w > Deg(180) THEN w - Deg(360) ELSE w

\* atan2 of signed zeros: x = 0*sin(theta), z = 0*cos(theta); cos is never 0.
Atan2AtPole(theta) ==
  LET w == Atan2Theta(theta)
  IN  IF w >= Deg(-90) /\ w <= Deg(90) THEN 0
      ELSE IF w > 0 THEN Deg(180) ELSE Deg(-180)

\* new THREE.Spherical().setFromVector3(camera.position)
setFromVector3(pos) ==
  LET p == Mod(pos.phi, Deg(360))
      phi == IF p <= Deg(180) THEN p ELSE Deg(360) - p
      th == IF p <= Deg(180) THEN pos.theta ELSE pos.theta + Deg(180)
  IN  [radius |-> pos.radius,
       phi |-> phi,
       theta |-> IF phi = 0 THEN Atan2AtPole(th) ELSE Atan2Theta(th)]

\* Variant that leaves the difference as it is (no wrap to the shorter arc).
NormalizeDeltaSkipped(d) == d

\* while (d > PI) d -= 2 PI; while (d < -PI) d += 2 PI
RECURSIVE NormalizeDelta(_)
NormalizeDelta(d) ==
  IF d > Deg(180) THEN NormalizeDelta(d - Deg(360))
  ELSE IF d < Deg(-180) THEN NormalizeDelta(d + Deg(360))
  ELSE d

\* Variant of the easing that runs backwards: delta * (1 - progress)^3.
EasedBackwards(delta, elapsed, duration) ==
  LET rest == duration - elapsed
      cube == duration * duration * duration
  IN  (delta * (rest * rest * rest)) \div cube

\* delta * easedProgress, easedProgress = 1 - (1 - progress)^3,
\* progress = elapsed / duration; the quotient is rounded down.
Eased(delta, elapsed, duration) ==
  LET rest == duration - elapsed
      cube == duration * duration * duration
  IN  (delta * (cube - rest * rest * rest)) \div cube

\* The closure of one orbit run: the values captured when it was started.
NewRun(kind, latitude, longitude, spherical, targetTheta, targetPhi, start, duration) ==
  [kind |-> kind,
   latitude |-> latitude,
   longitude |-> longitude,
   spherical |-> spherical,
   originalTheta |-> spherical.theta,
   originalPhi |-> spherical.phi,
   targetTheta |-> targetTheta,
   targetPhi |-> targetPhi,
   deltaTheta |-> NormalizeDelta(targetTheta - spherical.theta),
   deltaPhi |-> targetPhi - spherical.phi,
   startTime |-> start,
   endTime |-> start + duration,
   duration |-> duration,
   finished |-> FALSE]

\* orbitToLatLong(controls, camera, latitude, longitude, duration), up to animateOrbit()
orbitToLatLong(cam, latitude, longitude, duration, t) ==
  NewRun("latlong", latitude, longitude, setFromVector3(cam),
         longitude, Deg(90) - latitude, t, duration)

\* orbitToLongitude(controls, camera, longitude, duration), up to animateOrbit()
orbitToLongitude(cam, longitude, duration, t) ==
  LET spherical == setFromVector3(cam)
  IN  NewRun("longitude", 0, longitude, spherical, longitude, spherical.phi, t, duration)

\* Variant of the tick whose last sample is the interpolation at progress 1,
\* originalTheta + deltaTheta, instead of the target itself.
TickSphericalInterpolatedEnd(r, t) ==
  LET elapsed == IF t >= r.endTime THEN r.duration ELSE t - r.startTime
      eased(delta) == IF r.duration = 0 THEN delta ELSE Eased(delta, elapsed, r.duration)
  IN  [radius |-> r.spherical.radius,
       theta |-> r.originalTheta + eased(r.deltaTheta),
       phi |-> IF r.kind = "latlong" THEN r.originalPhi + eased(r.deltaPhi)
               ELSE r.spherical.phi]

\* Variant of the tick in which a run towards a longitude also brings the
\* camera down to the equator as it ends.
TickSphericalLevelling(r, t) ==
  IF t >= r.endTime
  THEN [radius |-> r.spherical.radius,
        theta |-> r.targetTheta,
        phi |-> IF r.kind = "latlong" THEN r.targetPhi ELSE Deg(90)]
  ELSE [radius |-> r.spherical.radius,
        theta |-> r.originalTheta + Eased(r.deltaTheta, t - r.startTime, r.duration),
        phi |-> IF r.kind = "latlong"
                THEN r.originalPhi + Eased(r.deltaPhi, t - r.startTime, r.duration)
                ELSE r.spherical.phi]

\* The spherical object of run r after its tick at time t.
TickSpherical(r, t) ==
  IF t >= r.endTime
  THEN [radius |-> r.spherical.radius,
        theta |-> r.targetTheta,
        phi |-> IF r.kind = "latlong" THEN r.targetPhi ELSE r.spherical.phi]
  ELSE [radius |-> r.spherical.radius,
        theta |-> r.originalTheta + Eased(r.deltaTheta, t - r.startTime, r.duration),
        phi |-> IF r.kind = "latlong"
                THEN r.originalPhi + Eased(r.deltaPhi, t - r.startTime, r.duration)
                ELSE r.spherical.phi]

\* Variant of animateOrbit() that requests the next frame after its terminal
\* tick as well.
animateOrbitRequestingAlways(i, st, t) ==
  LET r == st.runs[i]
      sph == TickSpherical(r, t)
      last == t >= r.endTime
  IN  [camera |-> sph,
       runs |-> [st.runs EXCEPT ![i] = [r EXCEPT !.spherical = sph, !.finished = last]],
       raf |-> Append(st.raf, i),
       writes |-> Append(st.writes,
                         [run |-> i, theta |-> sph.theta, phi |-> sph.phi,
                          radius |-> sph.radius, time |-> t, terminal |-> last,
                          newest |-> Len(st.runs),
                          lookAt |-> <<0, 0, 0>>, controlsUpdated |-> TRUE])]

(***************************************************************************)
(* animateOrbit() of run number i at time t, on st = the camera, the runs, *)
(* the callbacks requested for the next frame and the record of the        *)
(* positions written.                                                      *)
(***************************************************************************)
animateOrbit(i, st, t) ==
  LET r == st.runs[i]
      sph == TickSpherical(r, t)
      last == t >= r.endTime
  IN  [camera |-> sph,
       runs |-> [st.runs EXCEPT ![i] = [r EXCEPT !.spherical = sph, !.finished = last]],
       raf |-> IF last THEN st.raf ELSE Append(st.raf, i),
       writes |-> Append(st.writes,
                         [run |-> i, theta |-> sph.theta, phi |-> sph.phi,
                          radius |-> sph.radius, time |-> t, terminal |-> last,
                          newest |-> Len(st.runs),
                          lookAt |-> <<0, 0, 0>>, controlsUpdated |-> TRUE])]

\* Variant of the frame that runs the requested callbacks latest first.
RECURSIVE RunCallbacksLatestFirst(_, _, _)
RunCallbacksLatestFirst(queue, st, t) ==
  IF queue = <<>> THEN st
  ELSE LET ran == animateOrbit(queue[Len(queue)], st, t)
           before == RunCallbacksLatestFirst(SubSeq(queue, 1, Len(queue) - 1),
                                             [ran EXCEPT !.raf = st.raf], t)
       IN  [before EXCEPT !.raf = before.raf \o SubSeq(ran.raf, Len(st.raf) + 1, Len(ran.raf))]

\* One animation frame: the requested callbacks run in the order requested.
RECURSIVE RunCallbacks(_, _, _)
RunCallbacks(queue, st, t) ==
  IF queue = <<>> THEN st
  ELSE RunCallbacks(Tail(queue), animateOrbit(Head(queue), st, t), t)

(***************************************************************************)
(* The zone parameter database (spcsZoneParameters.json) and its lookup.   *)
(***************************************************************************)
\* String(k) of a non-negative integer.
RECURSIVE IntToString(_)
IntToString(k) ==
  IF k < 10 THEN <<Digits[k + 1]>>
  ELSE Append(IntToString(k \div 10), Digits[(k % 10) + 1])

\* fipsCode.toString() of a string or a number.
toString(v) ==
  IF v.t = "string" THEN v.s
  ELSE IF v.n < 0 THEN <<"-">> \o IntToString(0 - v.n)
  ELSE IntToString(v.n)

\* Variant of padStart that fills up to three characters only.
PadStartShort(s, n, c) ==
  IF Len(s) >= n - 1 THEN s ELSE [i \in 1..(n - 1 - Len(s)) |-> c] \o s

\* s.padStart(n, c)
PadStart(s, n, c) ==
  IF Len(s) >= n THEN s ELSE [i \in 1..(n - Len(s)) |-> c] \o s

\* A record of the database: {name, fips, projectionType, params}.
ZoneRecord(name, fips, type, cm, lat, sfd, falseEasting, units) ==
  [name |-> name, fips |-> fips, projectionType |-> type,
   params |-> [centralMeridian |-> cm, longitudeOfOrigin |-> Undef,
               latitudeOfOrigin |-> lat, scaleFactor |-> Undef,
               scaleFactorDenominator |-> sfd, falseEasting |-> falseEasting,
               units |-> units]]

NoRecord == ZoneRecord("", <<>>, "", Undef, Undef, Undef, Undef, "")

Fips0101 == <<"0", "1", "0", "1">>

Fips2600 == <<"2", "6", "0", "0">>

Fips5001 == <<"5", "0", "0", "1">>

\* The dataset: datum name -> zones -> four-character code -> record; the
\* metadata entry has no zones.
spcsZoneParameters ==
  [metadata |-> [hasZones |-> FALSE, zones |-> <<>>],
   NAD83 |->
     [hasZones |-> TRUE,
      zones |->
        (Fips0101 :> ZoneRecord("Alabama East", Fips0101, "TM",
                                Str(<<"8", "5", " ", "5", "0", " ", "W">>),
                                Str(<<"3", "0", " ", "3", "0", " ", "N">>),
                                Num(25000), Num(200000), "meters"))
        @@ (Fips2600 :> ZoneRecord("Michigan Central", Fips2600, "TM",
                                   Str(<<"8", "4", " ", "2", "2", " ", "W">>),
                                   Str(<<"4", "1", " ", "3", "0", " ", "N">>),
                                   Num(11000), Num(500000), "meters"))
        @@ (Fips5001 :> ZoneRecord("Alaska 1", Fips5001, "OM",
                                   Str(<<"S", "p", "e", "c", "i", "a", "l">>),
                                   Str(<<"5", "7", " ", "0", "0", " ", "N">>),
                                   Undef, Num(5000000), "meters"))],
   NAD27 |->
     [hasZones |-> TRUE,
      zones |->
        (Fips0101 :> ZoneRecord("Alabama East", Fips0101, "TM",
                                Str(<<"8", "5", " ", "5", "0", " ", "W">>),
                                Str(<<"3", "0", " ", "3", "0", " ", "N">>),
                                Num(25000), Num(500000), "US survey feet"))]]

\* Names every plain object inherits from Object.prototype (those used as inputs).
ObjectPrototypeNames ==
  {<<"t", "o", "S", "t", "r", "i", "n", "g">>,
   <<"c", "o", "n", "s", "t", "r", "u", "c", "t", "o", "r">>}

NullResult == [t |-> "null", record |-> NoRecord]

RecordResult(record) == [t |-> "record", record |-> record]

\* An inherited member of Object.prototype: a function, not a record.
InheritedResult == [t |-> "function", record |-> NoRecord]

\* zones[formattedFips]: an own property, else an inherited one, else undefined.
ZonesProperty(zones, key) ==
  IF key \in DOMAIN zones THEN RecordResult(zones[key])
  ELSE IF key \in ObjectPrototypeNames THEN InheritedResult
  ELSE NullResult

NoDatumArg == [t |-> "undefined", name |-> ""]

DatumArg(name) == [t |-> "string", name |-> name]

\* getSPCSZoneParameters(fipsCode, datum = 'NAD83') on the database db.  A
\* datum name that db does not carry yields undefined or an inherited member
\* without zones; both end in null.
getSPCSZoneParameters(db, fipsCode, datumArg) ==
  IF ~Truthy(fipsCode) THEN NullResult
  ELSE LET formattedFips == PadStart(toString(fipsCode), 4, "0")
           datum == IF datumArg.t = "undefined" THEN "NAD83" ELSE datumArg.name
       IN  IF datum \in DOMAIN db /\ db[datum].hasZones
           THEN LET found == ZonesProperty(db[datum].zones, formattedFips)
                IN  IF found.t = "null" THEN NullResult ELSE found
           ELSE NullResult

(***************************************************************************)
(* formatDDMMSS.  Its pattern                                              *)
(*   /(\d+)\s+(\d+)(?:\s+(\d+))?\s*([NSEW])/i                              *)
(* is not anchored; at a start position the seconds group is tried first   *)
(* and given up when the rest does not match with it.                      *)
(***************************************************************************)
Hemispheres == {"N", "S", "E", "W", "n", "s", "e", "w"}

\* The characters U+00B0 (degree sign), U+2032 (prime) and U+2033 (double
\* prime), each one element of a string.
DegreeSign == "<deg>"

Prime == "<prime>"

DoublePrime == "<dprime>"

\* matches[4].toUpperCase()
ToUpperCase(c) ==
  CASE c = "n" -> "N" [] c = "s" -> "S" [] c = "e" -> "E" [] c = "w" -> "W"
    [] OTHER -> c

NoFormatMatch == [found |-> FALSE, deg |-> <<>>, min |-> <<>>, hasSec |-> FALSE,
                  sec |-> <<>>, dir |-> ""]

\* The match of the pattern that starts exactly at position i, if any.
FormatMatchAt(s, i) ==
  LET j == DigitRunEnd(s, i)
      k == SpaceRunEnd(s, j)
      l == DigitRunEnd(s, k)
      m == SpaceRunEnd(s, l)
      n == DigitRunEnd(s, m)
      o == SpaceRunEnd(s, n)
  IN  IF ~(j > i /\ k > j /\ l > k) THEN NoFormatMatch
      ELSE IF m > l /\ n > m /\ o <= Len(s) /\ s[o] \in Hemispheres
      THEN [found |-> TRUE, deg |-> SubSeq(s, i, j - 1), min |-> SubSeq(s, k, l - 1),
            hasSec |-> TRUE, sec |-> SubSeq(s, m, n - 1), dir |-> s[o]]
      ELSE IF m <= Len(s) /\ s[m] \in Hemispheres
      THEN [found |-> TRUE, deg |-> SubSeq(s, i, j - 1), min |-> SubSeq(s, k, l - 1),
            hasSec |-> FALSE, sec |-> <<>>, dir |-> s[m]]
      ELSE NoFormatMatch

\* ddmmssString.match(...): the match at the leftmost position that has one.
RECURSIVE FormatMatchFrom(_, _)
FormatMatchFrom(s, i) ==
  IF i > Len(s) THEN NoFormatMatch
  ELSE IF FormatMatchAt(s, i).found THEN FormatMatchAt(s, i)
  ELSE FormatMatchFrom(s, i + 1)

(***************************************************************************)
(* parseFloat(s).toFixed(4) for a decimal without exponent: an optional    *)
(* sign, digits, an optional point and digits; what follows is ignored.    *)
(* The value is kept in units of 1/10000, rounded on the fifth fractional  *)
(* digit.                                                                  *)
(***************************************************************************)
FourDigits(k) == PadStart(IntToString(k), 4, "0")

ParseFloatToFixed4(s) ==
  LET a == SpaceRunEnd(s, 1)
      signed == a <= Len(s) /\ s[a] \in {"-", "+"}
      b == IF signed THEN a + 1 ELSE a
      e == DigitRunEnd(s, b)
      point == e <= Len(s) /\ s[e] = "."
      f == IF point THEN DigitRunEnd(s, e + 1) ELSE e
      frac == IF point THEN SubSeq(s, e + 1, f - 1) ELSE <<>>
      kept == SubSeq(frac \o <<"0", "0", "0", "0">>, 1, 4)
      up == IF Len(frac) > 4 /\ DigitValue(frac[5]) >= 5 THEN 1 ELSE 0
      units == DigitsToInt(SubSeq(s, b, e - 1)) * 10000 + DigitsToInt(kept) + up
      negative == signed /\ s[a] = "-" /\ units # 0
  IN  IF e = b /\ Len(frac) = 0 THEN <<"N", "a", "N">>
      ELSE (IF negative THEN <<"-">> ELSE <<>>)
           \o IntToString(units \div 10000) \o <<".">> \o FourDigits(units % 10000)

NotSpecified == <<"N", "o", "t", " ", "s", "p", "e", "c", "i", "f", "i", "e", "d">>

\* Variant of formatDDMMSS that marks the degrees only and always writes the
\* seconds: "D(deg) M S H".
formatDDMMSSUnmarked(v) ==
  IF ~Truthy(v) \/ v.t # "string" THEN NotSpecified
  ELSE LET matches == FormatMatchFrom(v.s, 1)
           seconds == IF matches.hasSec THEN matches.sec ELSE <<"0", "0">>
       IN  IF ~matches.found
           THEN IF \E i \in 1..Len(v.s) : v.s[i] = "."
                THEN ParseFloatToFixed4(v.s) \o <<DegreeSign>>
                ELSE v.s
           ELSE matches.deg \o <<DegreeSign, " ">> \o matches.min \o <<" ">> \o seconds
                \o <<" ", ToUpperCase(matches.dir)>>

\* formatDDMMSS(ddmmssString): the formatted string.
formatDDMMSS(v) ==
  IF ~Truthy(v) \/ v.t # "string" THEN NotSpecified
  ELSE LET matches == FormatMatchFrom(v.s, 1)
           seconds == IF matches.hasSec THEN matches.sec ELSE <<"0", "0">>
       IN  IF ~matches.found
           THEN IF \E i \in 1..Len(v.s) : v.s[i] = "."
                THEN ParseFloatToFixed4(v.s) \o <<DegreeSign>>
                ELSE v.s
           ELSE matches.deg \o <<DegreeSign, " ">> \o matches.min \o <<Prime>>
                \o (IF seconds # <<"0", "0">> THEN <<" ">> \o seconds \o <<DoublePrime>>
                    ELSE <<>>)
                \o <<" ", ToUpperCase(matches.dir)>>

\* Arguments handed to formatDDMMSS.
FormatInputs ==
  {Undef,
   Str(<<>>),
   Num(12345),
   Str(<<"8", "5", " ", "5", "0", " ", "W">>),
   Str(<<"3", "0", " ", "3", "0", " ", "n">>),
   Str(<<"1", "2", "2", " ", "1", "9", " ", "4", "5", " ", "W">>),
   Str(<<"1", "2", "2", " ", "1", "9", " ", "0", "0", " ", "W">>),
   Str(<<"1", "2", "2", " ", "1", "9", " ", "0", " ", "W">>),
   Str(<<"8", "5", ".", "8", "3", "3", "3">>),
   Str(<<"-", "1", "2", "2", ".", "3", "2", "6", "4">>),
   Str(<<"8", "5", ".", "5">>),
   Str(<<"U", "n", "u", "s", "u", "a", "l", " ", "F", "o", "r", "m", "a", "t">>),
   Str(<<"S", "p", "e", "c", "i", "a", "l">>),
   Str(<<"n", ".", "a", ".">>)}

(***************************************************************************)
(* latLonToPoint and the graticule.  Angles are whole degrees.  Sines and  *)
(* cosines are kept exactly, as real numbers: sin(a) is sign * sin(ref)    *)
(* for a reference angle ref in 0..90, and a coordinate is the product     *)
(* sign * r * sin(f1) * sin(f2) * (1 - flattening); sin(90) = 1.  A        *)
(* flattening is written as its reciprocal in millionths, 298257222 for    *)
(* 1/298.257222, and 0 is the flattening 0 (nothing rescaled).             *)
(* The IEEE results differ from these values by rounding of relative size  *)
(* about 1e-16.                                                            *)
(***************************************************************************)
ZeroFactor == [sign |-> 0, ref |-> 0]

\* Math.sin(a * Math.PI / 180)
SinDeg(a) ==
  LET w == Mod(a, 360)
  IN  IF w = 0 \/ w = 180 THEN ZeroFactor
      ELSE IF w < 180 THEN [sign |-> 1, ref |-> IF w <= 90 THEN w ELSE 180 - w]
      ELSE [sign |-> 0 - 1, ref |-> IF w <= 270 THEN w - 180 ELSE 360 - w]

\* Math.cos(a * Math.PI / 180)
CosDeg(a) == SinDeg(a + 90)

UnitFactor == [sign |-> 1, ref |-> 90]

ZeroCoordinate == [sign |-> 0, r |-> 0, f1 |-> 0, f2 |-> 0, flattening |-> 0]

\* radius * f * g
Times(radius, f, g) ==
  IF radius = 0 \/ f.sign = 0 \/ g.sign = 0 THEN ZeroCoordinate
  ELSE [sign |-> (IF radius < 0 THEN 0 - 1 ELSE 1) * f.sign * g.sign,
        r |-> IF radius < 0 THEN 0 - radius ELSE radius,
        f1 |-> f.ref, f2 |-> g.ref, flattening |-> 0]

\* Variant of latLonToPoint with x and z exchanged (+X as the 0 degree meridian).
latLonToPointSwapped(lat, lon, radius) ==
  [x |-> Times(radius, CosDeg(lat), CosDeg(lon)),
   y |-> Times(radius, SinDeg(lat), UnitFactor),
   z |-> Times(radius, CosDeg(lat), SinDeg(lon))]

\* Variant of latLonToPoint whose z forgets the cos(lat) factor.
latLonToPointCylindrical(lat, lon, radius) ==
  [x |-> Times(radius, CosDeg(lat), SinDeg(lon)),
   y |-> Times(radius, SinDeg(lat), UnitFactor),
   z |-> Times(radius, UnitFactor, CosDeg(lon))]

\* latLonToPoint(lat, lon, radius)
latLonToPoint(lat, lon, radius) ==
  [x |-> Times(radius, CosDeg(lat), SinDeg(lon)),
   y |-> Times(radius, SinDeg(lat), UnitFactor),
   z |-> Times(radius, CosDeg(lat), CosDeg(lon))]

\* GRATICULE_CONFIG.latInterval, GRATICULE_CONFIG.lonInterval
latInterval == 15

lonInterval == 15

\* The step of the sampling loops: lon += 2, lat += 2.
SampleStep == 2

\* The values of for (v = from; v <= to; v += step).
LoopThrough(from, to, step) ==
  [i \in 1..(((to - from) \div step) + 1) |-> from + step * (i - 1)]

\* The values of for (v = from; v < to; v += step).
LoopBelow(from, to, step) ==
  [i \in 1..(((to - from - 1) \div step) + 1) |-> from + step * (i - 1)]

\* this.b / this.a with this.b = this.a * (1 - this.f): the factor 1 - f.
\* point.y *= (this.b / this.a); new THREE.Vector3(point.x, point.y, point.z)
GraticulePoint(lat, lon, a, f) ==
  LET point == latLonToPoint(lat, lon, a)
  IN  [point EXCEPT !.y = IF point.y.sign = 0 THEN ZeroCoordinate
                          ELSE [point.y EXCEPT !.flattening = f]]

\* One THREE.Line of the group; primary is the primaryLineColor material.
GraticuleLine(kind, at, primary, points) ==
  [kind |-> kind, at |-> at, primary |-> primary, points |-> points]

\* Variant of createGraticule whose parallels stop below 360 degrees and whose
\* meridians run through 360 degrees.
createGraticuleShifted(a, f) ==
  LET lats == LoopThrough(0 - 90, 90, latInterval)
      lons == LoopThrough(0, 360, lonInterval)
      ringLons == LoopBelow(0, 360, SampleStep)
      arcLats == LoopThrough(0 - 90, 90, SampleStep)
  IN  [i \in DOMAIN lats |->
         GraticuleLine("parallel", lats[i], lats[i] = 0,
                       [k \in DOMAIN ringLons |-> GraticulePoint(lats[i], ringLons[k], a, f)])]
      \o [j \in DOMAIN lons |->
            GraticuleLine("meridian", lons[j], lons[j] = 0,
                          [k \in DOMAIN arcLats |-> GraticulePoint(arcLats[k], lons[j], a, f)])]

\* createGraticule(): the lines of the group, in the order they are added.
createGraticule(a, f) ==
  LET lats == LoopThrough(0 - 90, 90, latInterval)
      lons == LoopBelow(0, 360, lonInterval)
      ringLons == LoopThrough(0, 360, SampleStep)
      arcLats == LoopThrough(0 - 90, 90, SampleStep)
  IN  [i \in DOMAIN lats |->
         GraticuleLine("parallel", lats[i], lats[i] = 0,
                       [k \in DOMAIN ringLons |-> GraticulePoint(lats[i], ringLons[k], a, f)])]
      \o [j \in DOMAIN lons |->
            GraticuleLine("meridian", lons[j], lons[j] = 0,
                          [k \in DOMAIN arcLats |-> GraticulePoint(arcLats[k], lons[j], a, f)])]

\* this.a = params.a || 6378137
SemiMajorAxis == 6378137

\* this.f = params.f || 1/298.257222101
Flattening == 298257222

\* The ellipsoid before new DatumEllipsoid(...) has run.
NoEllipsoid ==
  [constructed |-> FALSE, a |-> 0, f |-> 0, surface |-> "null", surfaceVisible |-> FALSE,
   graticule |-> <<>>, graticuleVisible |-> FALSE]

\* constructor(scene, params): a and f are numbers or undefined; 0 is falsy.
DatumEllipsoid(a, f) ==
  LET thisA == IF Truthy(a) THEN a.n ELSE SemiMajorAxis
      thisF == IF Truthy(f) THEN f.n ELSE Flattening
  IN  [constructed |-> TRUE, a |-> thisA, f |-> thisF, surface |-> "null",
       surfaceVisible |-> FALSE, graticule |-> createGraticule(thisA, thisF),
       graticuleVisible |-> TRUE]

\* setVisibility(showSurface, showGraticule)
setVisibility(e, showSurface, showGraticule) ==
  [e EXCEPT !.surfaceVisible = IF e.surface # "null" THEN showSurface ELSE @,
            !.graticuleVisible = IF e.graticule # <<>> THEN showGraticule ELSE @]

\* Arguments handed to latLonToPoint and to the DatumEllipsoid constructor.
PointLatitudes == {0 - 90, 0 - 60, 0 - 45, 0 - 30, 0, 30, 45, 60, 90}

PointLongitudes ==
  {0 - 150, 0 - 135, 0 - 120, 0 - 90, 0 - 60, 0 - 45, 0 - 30, 0, 30, 45, 60, 90,
   120, 135, 150, 180}

PointRadii == {1, 2, SemiMajorAxis}

EllipsoidAxes == {Undef, Num(0), Num(1), Num(2), Num(10), Num(100), Num(6378206)}

EllipsoidFlattenings ==
  {Undef, Num(0), Num(294978698), Num(298257223)}

(***************************************************************************)
(* The map utilities.  A LatLngBounds is null, or an object that is valid  *)
(* once it has corners; coordinates are whole degrees.                     *)
(***************************************************************************)
NullBounds ==
  [t |-> "null", valid |-> FALSE, south |-> 0, west |-> 0, north |-> 0, east |-> 0]

\* L.latLngBounds([]): an object without corners.
EmptyBounds ==
  [t |-> "bounds", valid |-> FALSE, south |-> 0, west |-> 0, north |-> 0, east |-> 0]

LatLngBounds(south, west, north, east) ==
  [t |-> "bounds", valid |-> TRUE, south |-> south, west |-> west, north |-> north,
   east |-> east]

Least(m, n) == IF m <= n THEN m ELSE n

Greatest(m, n) == IF m >= n THEN m ELSE n

\* combinedBounds.extend(zone.bounds)
Extend(b, other) ==
  IF ~other.valid THEN b
  ELSE IF ~b.valid THEN other
  ELSE LatLngBounds(Least(b.south, other.south), Least(b.west, other.west),
                    Greatest(b.north, other.north), Greatest(b.east, other.east))

\* The visibleIndices argument: undefined, or a Set in insertion order.
NoVisibleIndices == [defined |-> FALSE, indices |-> <<>>]

VisibleIndices(indices) == [defined |-> TRUE, indices |-> indices]

\* visibleIndices.forEach(idx => ...): zones is the sequence of the zones'
\* bounds, NullBounds for a zone without bounds.
RECURSIVE CombineBounds(_, _, _)
CombineBounds(zones, indices, combinedBounds) ==
  IF indices = <<>> THEN combinedBounds
  ELSE LET idx == Head(indices)
           next == IF idx \notin DOMAIN zones \/ zones[idx].t = "null"
                   THEN combinedBounds
                   ELSE IF combinedBounds.t = "null"
                   THEN Extend(EmptyBounds, zones[idx])
                   ELSE Extend(combinedBounds, zones[idx])
       IN  CombineBounds(zones, Tail(indices), next)

\* calculateVisibleZonesBounds(zones, visibleIndices)
calculateVisibleZonesBounds(zones, visibleIndices) ==
  IF ~visibleIndices.defined \/ visibleIndices.indices = <<>> THEN NullBounds
  ELSE CombineBounds(zones, visibleIndices.indices, NullBounds)

\* map.setView([39.8283, -98.5795], 4): the centre in 1/10000 degree.
DefaultView ==
  [call |-> "setView", center |-> <<398283, 0 - 985795>>, zoom |-> 4, bounds |-> NullBounds]

\* map.fitBounds(bounds, {padding: [50, 50], maxZoom: 10, animate: true})
FitBounds(bounds) ==
  [call |-> "fitBounds", center |-> <<0, 0>>, zoom |-> 0, bounds |-> bounds]

\* zoomToVisibleZones(map, zones, visibleIndices): the calls made on the map.
zoomToVisibleZones(zones, visibleIndices) ==
  IF ~visibleIndices.defined \/ visibleIndices.indices = <<>> THEN <<DefaultView>>
  ELSE LET bounds == calculateVisibleZonesBounds(zones, visibleIndices)
       IN  IF bounds.t # "null" THEN <<FitBounds(bounds)>> ELSE <<>>

\* The view of the map after the calls made on it.
MapAfter(view, calls) == IF calls = <<>> THEN view ELSE calls[Len(calls)]

\* Zone lists and index sets handed to zoomToVisibleZones.
ZoomZoneLists ==
  {<<LatLngBounds(40, 0 - 80, 45, 0 - 75), LatLngBounds(35, 0 - 85, 39, 0 - 79),
     LatLngBounds(41, 0 - 90, 47, 0 - 83)>>,
   <<LatLngBounds(40, 0 - 80, 45, 0 - 75), NullBounds, EmptyBounds>>,
   <<NullBounds, NullBounds>>}

ZoomIndexSets ==
  {NoVisibleIndices} \cup
  {VisibleIndices(s) : s \in {<<>>, <<1>>, <<2>>, <<3>>, <<4>>, <<1, 2>>, <<2, 1>>,
                              <<2, 3>>, <<1, 4>>, <<1, 2, 3>>, <<3, 2, 1>>}}

NoZoom == [called |-> FALSE, zones |-> <<>>, visibleIndices |-> NoVisibleIndices, calls |-> <<>>]

(***************************************************************************)
(* The names createTransverseMercatorCylinder gives its objects.  A zone   *)
(* name is a sequence of characters.                                       *)
(***************************************************************************)
UpperCaseLetters ==
  <<"A", "B", "C", "D", "E", "F", "G", "H", "I", "J", "K", "L", "M", "N", "O", "P", "Q",
    "R", "S", "T", "U", "V", "W", "X", "Y", "Z">>

LowerCaseLetters ==
  <<"a", "b", "c", "d", "e", "f", "g", "h", "i", "j", "k", "l", "m", "n", "o", "p", "q",
    "r", "s", "t", "u", "v", "w", "x", "y", "z">>

\* String.prototype.toLowerCase, character by character.
toLowerCase(s) ==
  [i \in DOMAIN s |->
     IF \E k \in DOMAIN UpperCaseLetters : UpperCaseLetters[k] = s[i]
     THEN LowerCaseLetters[CHOOSE k \in DOMAIN UpperCaseLetters : UpperCaseLetters[k] = s[i]]
     ELSE s[i]]

\* The characters \s matches among those of the names: space and tab.
IsWhitespace(c) == c \in {" ", "\t"}

\* name.replace(/\s+/g, '_')
RECURSIVE ReplaceWhitespaceRuns(_)
ReplaceWhitespaceRuns(s) ==
  IF s = <<>> THEN <<>>
  ELSE IF IsWhitespace(s[1])
  THEN LET rest == CHOOSE x \in 2..(Len(s) + 1) :
                     /\ x = Len(s) + 1 \/ ~IsWhitespace(s[x])
                     /\ \A y \in 2..(x - 1) : IsWhitespace(s[y])
       IN  <<"_">> \o ReplaceWhitespaceRuns(SubSeq(s, rest, Len(s)))
  ELSE <<s[1]>> \o ReplaceWhitespaceRuns(Tail(s))

\* const zoneId = zone.name.replace(/\s+/g, '_').toLowerCase()
ZoneIdentifier(name) == toLowerCase(ReplaceWhitespaceRuns(name))

Chars(str) ==
  CASE str = "transverseMercatorCylinder_" ->
         <<"t", "r", "a", "n", "s", "v", "e", "r", "s", "e", "M", "e", "r", "c", "a", "t",
           "o", "r", "C", "y", "l", "i", "n", "d", "e", "r", "_">>
    [] str = "tmCylinder_" -> <<"t", "m", "C", "y", "l", "i", "n", "d", "e", "r", "_">>

\* cylinderGroup.name and cylinder.name
CylinderNames(name) ==
  LET zoneId == ZoneIdentifier(name)
  IN  [zone |-> name, zoneId |-> zoneId,
       group |-> Chars("transverseMercatorCylinder_") \o zoneId,
       mesh |-> Chars("tmCylinder_") \o zoneId]

\* Zone names handed to createTransverseMercatorCylinder.
ZoneNames ==
  {<<"A", "l", "a", "s", "k", "a", " ", "Z", "o", "n", "e", " ", "3">>,
   <<"A", "l", "a", "s", "k", "a", " ", "Z", "o", "n", "e", " ", "5">>,
   <<"a", "l", "a", "s", "k", "a", " ", "z", "o", "n", "e", " ", "3">>,
   <<"A", "l", "a", "s", "k", "a", " ", " ", "Z", "o", "n", "e", " ", "3">>,
   <<"A", "l", "a", "s", "k", "a", "\t", "Z", "o", "n", "e", " ", "3">>,
   <<"A", "l", "a", "s", "k", "a", "_", "Z", "o", "n", "e", "_", "3">>,
   <<"A", "l", "a", "s", "k", "a", "Z", "o", "n", "e", "3">>,
   <<"T", "e", "x", "a", "s", " ", "N", "o", "r", "t", "h">>,
   <<"T", "e", "x", "a", "s", " ", "N", "o", "r", "t", "h", " ">>,
   <<"T", "E", "X", "A", "S", " ", "N", "O", "R", "T", "H">>,
   <<"U", "t", "a", "h">>,
   <<>>}

(***************************************************************************)
(* Inputs: parameter values as the zone database and callers supply them.  *)
(***************************************************************************)
CentralMeridians ==
  {Undef,
   Str(<<"1", "4", "6", " ", "0", "0", " ", "W">>),
   Str(<<"1", "2", "2", " ", "1", "9", " ", "4", "5", " ", "W">>),
   Str(<<"1", "0", " ", "3", "0", " ", "E">>),
   Str(<<"8", "5", " ", "5", "0", " ", "w">>),
   Str(<<"S", "p", "e", "c", "i", "a", "l">>),
   Num(85)}

LatitudesOfOrigin ==
  {Undef,
   Str(<<"5", "4", " ", "0", "0", " ", "N">>),
   Str(<<"3", "0", " ", "3", "0", " ", "S">>),
   Str(<<"S", "p", "e", "c", "i", "a", "l">>),
   Num(30)}

ScaleFactors ==
  {Undef,
   Num(10000),
   Str(<<"2", "5", "0", "0", "0">>),
   Str(<<"1", "/", "1", "0", "0", "0", "0">>),
   Str(<<"a", "b", "c">>)}

ScaleFactorDenominators ==
  {Num(10000),
   Str(<<"1", "0", "0", "0", "0">>),
   Str(<<"1", "/", "1", "0", "0", "0", "0">>)}

MkZone(name, projection, gcm, glat, sp, geometry) ==
  [name |-> name, projection |-> projection, centralMeridian |-> gcm,
   latitudeOfOrigin |-> glat, spcsParams |-> sp, hasGeometry |-> geometry]

DbRecord(type, cm, lo, lat, sf, sfd) ==
  [present |-> TRUE, projectionType |-> type, hasParams |-> TRUE,
   params |-> [centralMeridian |-> cm, longitudeOfOrigin |-> lo,
               latitudeOfOrigin |-> lat, scaleFactor |-> sf,
               scaleFactorDenominator |-> sfd, falseEasting |-> Undef, units |-> ""]]

\* zone.spcsParams as the code tests it: the looked-up value (a record, an
\* inherited function without fields, or null).
SpcsParams(found) ==
  CASE found.t = "record" ->
         [present |-> TRUE, projectionType |-> found.record.projectionType,
          hasParams |-> TRUE, params |-> found.record.params]
    [] found.t = "function" ->
         [present |-> TRUE, projectionType |-> "", hasParams |-> FALSE,
          params |-> NoParams]
    [] OTHER -> NoSpcsParams

\* A feature of the GeoJSON feed: its properties and its geometry type.
Feature(name, fips, projection, cm, lat, geometryType) ==
  [ZONENAME |-> name, FIPSZONE |-> fips, PROJECTION |-> projection,
   CENTRAL_MERIDIAN |-> cm, LATITUDE_OF_ORIGIN |-> lat, geometryType |-> geometryType]

\* Variant of processZoneData that writes the feed's zone name into the
\* database record it found.
processZoneDataRenaming(db, data) ==
  LET found(f) == getSPCSZoneParameters(db, f.FIPSZONE, NoDatumArg)
      hit == {i \in DOMAIN data : found(data[i]).t = "record"}
      renamed(datum) ==
        [hasZones |-> db[datum].hasZones,
         zones |-> IF datum = "NAD83"
                   THEN [k \in DOMAIN db[datum].zones |->
                           IF \E i \in hit : found(data[i]).record.fips = k
                           THEN [db[datum].zones[k] EXCEPT !.name =
                                   (CHOOSE n \in {data[i].ZONENAME : i \in hit} :
                                      \E i \in hit : /\ data[i].ZONENAME = n
                                                     /\ found(data[i]).record.fips = k)]
                           ELSE db[datum].zones[k]]
                   ELSE db[datum].zones]
  IN  [zones |-> [i \in DOMAIN data |->
                    MkZone(data[i].ZONENAME, data[i].PROJECTION,
                           data[i].CENTRAL_MERIDIAN, data[i].LATITUDE_OF_ORIGIN,
                           SpcsParams(found(data[i])),
                           data[i].geometryType \in {"Polygon", "MultiPolygon"})],
       repository |-> [datum \in DOMAIN db |-> renamed(datum)]]

\* processZoneData(data): one zone per feature, with the database record of
\* its FIPSZONE; the database itself is only read.
processZoneData(db, data) ==
  [zones |-> [i \in DOMAIN data |->
                MkZone(data[i].ZONENAME, data[i].PROJECTION,
                       data[i].CENTRAL_MERIDIAN, data[i].LATITUDE_OF_ORIGIN,
                       SpcsParams(getSPCSZoneParameters(db, data[i].FIPSZONE, NoDatumArg)),
                       data[i].geometryType \in {"Polygon", "MultiPolygon"})],
   repository |-> db]

\* Codes and datum names handed to getSPCSZoneParameters.
FipsCodes ==
  {Undef,
   Str(<<"1", "0", "1">>),
   Num(101),
   Str(Fips0101),
   Str(<<"9", "9", "9", "9">>),
   Num(5001),
   Str(<<"t", "o", "S", "t", "r", "i", "n", "g">>)}

DatumArgs == {NoDatumArg, DatumArg("NAD83"), DatumArg("NAD27"), DatumArg("INVALID")}

\* Feeds handed to processZoneData.
Feeds ==
  {<<Feature("Alabama East", Num(101), "TM", Num(0 - 309000), Num(109800), "Polygon"),
     Feature("Alaska Zone 1", Str(Fips5001), "LCC", Num(0 - 480000), Num(205200),
             "MultiPolygon")>>,
   <<Feature("Michigan Central", Str(Fips2600), "LCC", Undef, Undef, "Polygon"),
     Feature("Test Zone", Str(<<"9", "9", "9", "9">>), "TM", Num(0 - 304200), Undef,
             "Point")>>,
   <<Feature("Unnamed", Undef, "", Undef, Undef, "Polygon")>>}

\* Zones handed to createTransverseMercatorCylinder: records that carry the
\* scaleFactor field, records that carry scaleFactorDenominator as the zone
\* database does, and a zone known from the GeoJSON feed alone.
TMZones ==
  {MkZone("Test Zone TM", "TM", Undef, Undef, DbRecord("TM", cm, Undef, lat, sf, Undef), TRUE) :
     cm \in CentralMeridians, lat \in LatitudesOfOrigin, sf \in ScaleFactors}
  \cup {MkZone("Test Zone TM", "TM", Undef, Undef,
               DbRecord("TM", cm, Undef, Str(<<"5", "4", " ", "0", "0", " ", "N">>),
                        Undef, sfd), TRUE) :
          cm \in CentralMeridians, sfd \in ScaleFactorDenominators}
  \cup {MkZone("Test Zone Basic", "TM", Num(0 - 304200), Num(109800), NoSpcsParams, TRUE)}

\* Zones of the other projection kinds, from the database or from the feed.
OtherZones ==
  {MkZone("Test Zone Other", "", Undef, Undef,
          DbRecord(type, Undef, Str(<<"8", "5", " ", "5", "0", " ", "W">>),
                   Str(<<"3", "0", " ", "3", "0", " ", "N">>), Undef, Undef), TRUE) :
     type \in {"LCC", "OM", "XYZ"}}
  \cup {MkZone("Test Zone Feed", projection, Num(0 - 304200), Num(109800), NoSpcsParams, TRUE) :
          projection \in {"LCC", "OM", "XYZ", ""}}

\* Zones whose database record and GeoJSON properties disagree, or whose
\* record lacks its projectionType or its params.
ConflictZones ==
  LET cm == Str(<<"8", "5", " ", "5", "0", " ", "W">>)
      lat == Str(<<"3", "0", " ", "3", "0", " ", "N">>)
      record(type) == DbRecord(type, cm, Undef, lat, Num(10000), Num(10000))
  IN  {MkZone("Test Zone Conflict", projection, Num(0 - 304200), Num(109800), sp, TRUE) :
         projection \in {"TM", "LCC", ""},
         sp \in {record("TM"), record("LCC"), record(""),
                 [record("TM") EXCEPT !.hasParams = FALSE, !.params = NoParams],
                 [record("OM") EXCEPT !.hasParams = FALSE, !.params = NoParams]}}

NoZone == MkZone("", "", Undef, Undef, NoSpcsParams, FALSE)

(***************************************************************************)
(* Bounds of the model.                                                    *)
(***************************************************************************)
MaxAlignCalls == 1

MaxLookups == 2

MaxFormats == 2

MaxNamed == 2

MaxRuns == 2

\* The Toggle All handler is not run on a scene with this many groups.
MaxSceneGroups == 2

MaxTime == 4

MaxFrameStep == 2

\* Milliseconds per clock unit of the model.
ClockUnitMs == 250

\* duration = 1000: the default of orbitToLatLong and of orbitToLongitude, in ms.
DefaultDurationMs == 1000

DefaultDuration == DefaultDurationMs \div ClockUnitMs

\* Durations handed to orbitToLatLong and to orbitToLongitude.
Durations == {0, DefaultDuration}

LongitudeDurations == {0, DefaultDuration \div 2}

\* (latitude, longitude) targets of direct orbitToLatLong calls.
OrbitTargets ==
  {<<Deg(90), Deg(170)>>, <<Deg(-90), 0>>, <<Deg(30), Deg(-170)>>, <<0, Deg(170)>>}

OrbitLongitudes == {Deg(-180), Deg(90)}

(***************************************************************************)
(* The loaded zones, sorted by name (initControls).                        *)
(***************************************************************************)
Zones ==
  <<MkZone("Alaska 2", "TM", Undef, Undef,
           DbRecord("TM", Str(<<"1", "4", "6", " ", "0", "0", " ", "W">>), Undef,
                    Str(<<"5", "4", " ", "0", "0", " ", "N">>), Undef, Num(10000)), TRUE),
    MkZone("Georgia East", "TM", Num(0 - 304200), Undef, NoSpcsParams, TRUE),
    MkZone("Hawaii 1", "TM", Undef, Undef, NoSpcsParams, TRUE),
    MkZone("Oregon North", "LCC", Undef, Undef,
           DbRecord("LCC", Undef, Str(<<"1", "2", "0", " ", "3", "0", " ", "W">>),
                    Str(<<"4", "3", " ", "4", "0", " ", "N">>), Undef, Undef), TRUE),
    MkZone("Puerto Rico", "LCC", Undef, Undef, NoSpcsParams, FALSE),
    MkZone("Washington Coast", "TM", Undef, Undef,
           DbRecord("TM", Str(<<"1", "2", "2", " ", "1", "9", " ", "4", "5", " ", "W">>),
                    Undef, Str(<<"4", "7", " ", "0", "0", " ", "N">>), Undef, Num(10000)),
           TRUE)>>

ZoneIds == 1..Len(Zones)

\* zoneData.layers: createZoneLayer raises for a zone without usable geometry.
Layers == {i \in ZoneIds : Zones[i].hasGeometry}

VARIABLES
  scene,              \* the cylinder groups in the THREE.Scene
  lastCall,           \* the latest visualization call and what it did
  camera,             \* camera.position
  runs,               \* the orbit runs started so far (their closures)
  rafQueue,           \* animateOrbit callbacks requested for the next frame
  now,                \* performance.now()
  writes,             \* every camera.position.copy, in order
  checked,            \* zone checkboxes
  onMap,              \* zone layers on the Leaflet map
  visible,            \* zoneData.visible
  projectionObjects,  \* projectionObjects[idx]: id of the tracked group, 0 if none
  toggleAll,          \* the 'Clear All Zones' checkbox
  mapView,            \* the latest map.setView / map.fitBounds
  apiCalls,           \* number of direct calls of the visualization functions
  repository,         \* the zone parameter database in memory
  lookups,            \* the getSPCSZoneParameters calls made and their results
  processed,          \* the zones processZoneData returned (<<>> before the load)
  formats,            \* the formatDDMMSS calls made: argument and result
  lastPoint,          \* the latest latLonToPoint call and its result
  ellipsoid,          \* the DatumEllipsoid: axes, surface, graticule lines, visibility
  lastZoom,           \* the latest direct zoomToVisibleZones call and the map calls it made
  named               \* zone name, group name and mesh name of the cylinders built by name

vars ==
  <<scene, lastCall, camera, runs, rafQueue, now, writes, checked, onMap, visible,
    projectionObjects, toggleAll, mapView, apiCalls, repository, lookups, processed,
    formats, lastPoint, ellipsoid, lastZoom, named>>

mathVars == <<lastPoint, ellipsoid>>

libVars == <<repository, lookups, processed, formats, mathVars, lastZoom, named>>

sceneVars == <<scene, lastCall>>

orbitVars == <<camera, runs, rafQueue, now, writes>>

uiVars == <<checked, onMap, visible, projectionObjects, toggleAll, mapView>>

NoPoint ==
  [called |-> FALSE, lat |-> 0, lon |-> 0, radius |-> 0,
   point |-> [x |-> ZeroCoordinate, y |-> ZeroCoordinate, z |-> ZeroCoordinate]]

NoOrbit == [raised |-> FALSE, kind |-> "none", latitude |-> 0, longitude |-> 0]

NoCall ==
  [fn |-> "none", zone |-> NoZone, raised |-> FALSE, returned |-> "none",
   warned |-> FALSE, calls |-> <<>>, group |-> NoGroup, type |-> "", details |-> <<>>,
   orbit |-> NoOrbit]

\* Everything but the checkbox above the zone list, which differs between
\* the two variants of the control panel.
InitButToggleAll ==
  /\ scene = {}
  /\ lastCall = NoCall
  /\ camera = [radius |-> 24000000, theta |-> 0, phi |-> Deg(90)]
  /\ runs = <<>>
  /\ rafQueue = <<>>
  /\ now = 0
  /\ writes = <<>>
  /\ checked = [i \in ZoneIds |-> FALSE]
  /\ onMap = {}
  /\ visible = {}
  /\ projectionObjects = [i \in ZoneIds |-> 0]
  /\ mapView = DefaultView
  /\ apiCalls = 0
  /\ repository = spcsZoneParameters
  /\ lookups = <<>>
  /\ processed = <<>>
  /\ formats = <<>>
  /\ lastPoint = NoPoint
  /\ ellipsoid = NoEllipsoid
  /\ lastZoom = NoZoom
  /\ named = <<>>

\* The panel with 'Clear All Zones': the checkbox is created disabled.
Init ==
  /\ toggleAll = [label |-> "Clear All Zones", checked |-> FALSE,
                  indeterminate |-> FALSE, disabled |-> TRUE]
  /\ InitButToggleAll

\* The panel with 'Toggle All Zones': the checkbox is never disabled.
InitToggleAll ==
  /\ toggleAll = [label |-> "Toggle All Zones", checked |-> FALSE,
                  indeterminate |-> FALSE, disabled |-> FALSE]
  /\ InitButToggleAll

\* An identifier for a new THREE.Group: the least one no live object carries.
FreshId ==
  LET used == {g.id : g \in scene} \cup {projectionObjects[i] : i \in ZoneIds}
  IN  CHOOSE i \in 1..(Cardinality(used) + 1) :
        i \notin used /\ \A j \in 1..(i - 1) : j \in used

\* What a call did: its outcome, the calls it made, the group it built, and
\* (for the change handler) the orbit it went on to request.
CallRecord(fn, zone, r, orbit) ==
  [fn |-> fn, zone |-> zone, raised |-> r.raised, returned |-> r.returned,
   warned |-> r.warned, calls |-> r.calls, group |-> r.group,
   type |-> getProjectionType(zone),
   details |-> IF fn = "createTransverseMercatorCylinder" THEN <<>>
               ELSE logProjectionDetails(zone),
   orbit |-> orbit]

SceneAfter(r) == IF AddedToScene(r) THEN scene \cup {r.group} ELSE scene

(***************************************************************************)
(* Direct calls of the visualization functions (as the unit tests make).   *)
(***************************************************************************)
CallCreateTransverseMercatorCylinder(zone) ==
  /\ apiCalls < MaxAlignCalls
  /\ apiCalls' = apiCalls + 1
  /\ \E r \in {createTransverseMercatorCylinder(FreshId, zone)} :
         /\ scene' = SceneAfter(r)
         /\ lastCall' = CallRecord("createTransverseMercatorCylinder", zone, r, NoOrbit)
  /\ UNCHANGED <<orbitVars, uiVars, libVars>>

CallVisualizeProjection(zone) ==
  /\ apiCalls < MaxAlignCalls
  /\ apiCalls' = apiCalls + 1
  /\ \E r \in {visualizeProjection(FreshId, zone)} :
         /\ scene' = SceneAfter(r)
         /\ lastCall' = CallRecord("visualizeProjection", zone, r, NoOrbit)
  /\ UNCHANGED <<orbitVars, uiVars, libVars>>

NextAlign ==
  \/ \E zone \in TMZones : CallCreateTransverseMercatorCylinder(zone)
  \/ \E zone \in TMZones \cup OtherZones \cup ConflictZones : CallVisualizeProjection(zone)

SpecAlign == Init /\ [][NextAlign]_vars

(***************************************************************************)
(* The database lookup and the load of the zone feed.                      *)
(***************************************************************************)
CallGetSPCSZoneParameters(fipsCode, datumArg) ==
  /\ Len(lookups) < MaxLookups
  /\ lookups' = Append(lookups,
                       [fipsCode |-> fipsCode, datum |-> datumArg,
                        result |-> getSPCSZoneParameters(repository, fipsCode, datumArg)])
  /\ UNCHANGED <<sceneVars, orbitVars, uiVars, apiCalls, repository, processed, formats, mathVars,
                 lastZoom, named>>

CallProcessZoneData(data) ==
  /\ processed = <<>>
  /\ \E out \in {processZoneData(repository, data)} :
         /\ processed' = out.zones
         /\ repository' = out.repository
  /\ UNCHANGED <<sceneVars, orbitVars, uiVars, apiCalls, lookups, formats, mathVars,
                 lastZoom, named>>

\* visualizeProjection on a zone that processZoneData returned.
VisualizeProcessedZone(i) ==
  /\ i \in DOMAIN processed
  /\ CallVisualizeProjection(processed[i])

NextRepo ==
  \/ \E fipsCode \in FipsCodes, datumArg \in DatumArgs :
       CallGetSPCSZoneParameters(fipsCode, datumArg)
  \/ \E data \in Feeds : CallProcessZoneData(data)
  \/ \E i \in DOMAIN processed : VisualizeProcessedZone(i)

SpecRepo == Init /\ [][NextRepo]_vars

(***************************************************************************)
(* Calls of formatDDMMSS: on an argument, and on its own latest result.    *)
(***************************************************************************)
CallFormatDDMMSS(v) ==
  /\ Len(formats) < MaxFormats
  /\ formats' = Append(formats, [input |-> v, output |-> formatDDMMSS(v)])
  /\ UNCHANGED <<sceneVars, orbitVars, uiVars, apiCalls, repository, lookups, processed,
                 mathVars, lastZoom, named>>

FormatAgain ==
  /\ formats # <<>>
  /\ CallFormatDDMMSS(Str(formats[Len(formats)].output))

NextFormat ==
  \/ \E v \in FormatInputs : CallFormatDDMMSS(v)
  \/ FormatAgain

SpecFormat == Init /\ [][NextFormat]_vars

(***************************************************************************)
(* Calls of latLonToPoint and the construction of the datum ellipsoid.     *)
(***************************************************************************)
CallLatLonToPoint(lat, lon, radius) ==
  /\ lastPoint' = [called |-> TRUE, lat |-> lat, lon |-> lon, radius |-> radius,
                   point |-> latLonToPoint(lat, lon, radius)]
  /\ UNCHANGED <<sceneVars, orbitVars, uiVars, apiCalls, repository, lookups, processed,
                 formats, ellipsoid, lastZoom, named>>

NextMath ==
  \E lat \in PointLatitudes, lon \in PointLongitudes, radius \in PointRadii :
    CallLatLonToPoint(lat, lon, radius)

SpecMath == Init /\ [][NextMath]_vars

(***************************************************************************)
(* The datum ellipsoid: its construction, the texture loader's callback    *)
(* that creates the surface, and setVisibility.                            *)
(***************************************************************************)
ellipsoidFrame ==
  UNCHANGED <<sceneVars, orbitVars, uiVars, apiCalls, repository, lookups, processed,
              formats, lastPoint, lastZoom, named>>

NewDatumEllipsoid(a, f) ==
  /\ ~ellipsoid.constructed
  /\ ellipsoid' = DatumEllipsoid(a, f)
  /\ ellipsoidFrame

\* textureLoader.load callback: this.surface = new THREE.Mesh(...); scene.add
TextureLoaded ==
  /\ ellipsoid.constructed
  /\ ellipsoid.surface = "null"
  /\ ellipsoid' = [ellipsoid EXCEPT !.surface = "mesh", !.surfaceVisible = TRUE]
  /\ ellipsoidFrame

CallSetVisibility(showSurface, showGraticule) ==
  /\ ellipsoid.constructed
  /\ ellipsoid' = setVisibility(ellipsoid, showSurface, showGraticule)
  /\ ellipsoidFrame

NextEllipsoid ==
  \/ \E a \in EllipsoidAxes, f \in EllipsoidFlattenings : NewDatumEllipsoid(a, f)
  \/ TextureLoaded
  \/ \E showSurface \in BOOLEAN, showGraticule \in BOOLEAN :
       CallSetVisibility(showSurface, showGraticule)

SpecEllipsoid == Init /\ [][NextEllipsoid]_vars

(***************************************************************************)
(* Direct calls of zoomToVisibleZones.                                     *)
(***************************************************************************)
CallZoomToVisibleZones(zones, visibleIndices) ==
  \E calls \in {zoomToVisibleZones(zones, visibleIndices)} :
      /\ lastZoom' = [called |-> TRUE, zones |-> zones, visibleIndices |-> visibleIndices,
                      calls |-> calls]
      /\ mapView' = MapAfter(mapView, calls)
      /\ UNCHANGED <<sceneVars, orbitVars, checked, onMap, visible, projectionObjects,
                     toggleAll, apiCalls, repository, lookups, processed, formats,
                     mathVars, named>>

NextZoom ==
  \E zones \in ZoomZoneLists, visibleIndices \in ZoomIndexSets :
    CallZoomToVisibleZones(zones, visibleIndices)

SpecZoom == Init /\ [][NextZoom]_vars

(***************************************************************************)
(* Cylinders built for zones given by name.                                *)
(***************************************************************************)
CallCreateCylinderNamed(name) ==
  /\ Len(named) < MaxNamed
  /\ named' = Append(named, CylinderNames(name))
  /\ UNCHANGED <<sceneVars, orbitVars, uiVars, apiCalls, repository, lookups, processed,
                 formats, mathVars, lastZoom>>

NextNames == \E name \in ZoneNames : CallCreateCylinderNamed(name)

SpecNames == Init /\ [][NextNames]_vars

(***************************************************************************)
(* Orbit runs.  Starting a run appends its closure and makes its first     *)
(* animateOrbit() call at once; later calls come with animation frames.    *)
(***************************************************************************)
OrbitState == [camera |-> camera, runs |-> runs, raf |-> rafQueue, writes |-> writes]

StartRun(run) ==
  \E st \in {animateOrbit(Len(runs) + 1,
                          [OrbitState EXCEPT !.runs = Append(runs, run)], now)} :
      /\ camera' = st.camera
      /\ runs' = st.runs
      /\ rafQueue' = st.raf
      /\ writes' = st.writes
      /\ now' = now

CallOrbitToLatLong(latitude, longitude, duration) ==
  /\ Len(runs) < MaxRuns
  /\ StartRun(orbitToLatLong(camera, latitude, longitude, duration, now))
  /\ UNCHANGED <<sceneVars, uiVars, apiCalls, libVars>>

CallOrbitToLongitude(longitude, duration) ==
  /\ Len(runs) < MaxRuns
  /\ StartRun(orbitToLongitude(camera, longitude, duration, now))
  /\ UNCHANGED <<sceneVars, uiVars, apiCalls, libVars>>

\* The browser's next frame, dt clock units later: every requested callback runs.
AnimationFrame(dt) ==
  /\ now + dt <= MaxTime
  /\ \E st \in {RunCallbacks(rafQueue, [OrbitState EXCEPT !.raf = <<>>], now + dt)} :
         /\ camera' = st.camera
         /\ runs' = st.runs
         /\ rafQueue' = st.raf
         /\ writes' = st.writes
         /\ now' = now + dt
  /\ UNCHANGED <<sceneVars, uiVars, apiCalls, libVars>>

NextOrbit ==
  \/ \E target \in OrbitTargets, duration \in Durations :
       CallOrbitToLatLong(target[1], target[2], duration)
  \/ \E longitude \in OrbitLongitudes, duration \in LongitudeDurations :
       CallOrbitToLongitude(longitude, duration)
  \/ \E dt \in 1..MaxFrameStep : AnimationFrame(dt)

SpecOrbit == Init /\ [][NextOrbit]_vars

(***************************************************************************)
(* Orbit runs under a browser that keeps delivering animation frames.  A   *)
(* run is started only while its end lies within the clock bound, so that  *)
(* the bound never stops the clock before a run's end.                     *)
(***************************************************************************)
NextOrbitLive ==
  \/ \E target \in OrbitTargets, duration \in Durations :
       /\ now + duration <= MaxTime
       /\ CallOrbitToLatLong(target[1], target[2], duration)
  \/ \E longitude \in OrbitLongitudes, duration \in LongitudeDurations :
       /\ now + duration <= MaxTime
       /\ CallOrbitToLongitude(longitude, duration)
  \/ \E dt \in 1..MaxFrameStep : AnimationFrame(dt)

\* The clock moves on to the next frame.  AnimationFrame is the only action
\* that changes the clock, and it is enabled exactly when this is.
ClockAdvances == \E dt \in 1..MaxFrameStep : now + dt <= MaxTime /\ now' = now + dt

SpecOrbitLive ==
  /\ Init
  /\ [][NextOrbitLive]_vars
  /\ WF_now(ClockAdvances)

(***************************************************************************)
(* The control panel (initControls): zone checkboxes and 'Clear All'.      *)
(***************************************************************************)
\* A longitude / latitude the change handler reads from a DMS parameter.
HandlerAngle(v, H, neg) ==
  IF v.t # "string" THEN [raised |-> TRUE, angle |-> 0]   \* .match is not a function
  ELSE LET matches == DmsMatch(v.s, H)
       IN  [raised |-> FALSE,
            angle |-> IF matches.found THEN SignedAngle(matches, neg) ELSE 0]

NoAngle == [raised |-> FALSE, angle |-> 0]

\* The orbit the change handler requests for a selected zone.
HandlerOrbit(zone) ==
  IF zone.spcsParams.present /\ zone.spcsParams.hasParams
  THEN LET params == zone.spcsParams.params
           cm == IF Truthy(params.centralMeridian)
                 THEN HandlerAngle(params.centralMeridian, {"W", "E"}, "W")
                 ELSE IF Truthy(params.longitudeOfOrigin)
                 THEN HandlerAngle(params.longitudeOfOrigin, {"W", "E"}, "W")
                 ELSE NoAngle
           lat == IF Truthy(params.latitudeOfOrigin)
                  THEN HandlerAngle(params.latitudeOfOrigin, {"N", "S"}, "S")
                  ELSE NoAngle
       IN  [raised |-> cm.raised \/ lat.raised, kind |-> "latlong",
            latitude |-> lat.angle, longitude |-> cm.angle]
  ELSE IF zone.centralMeridian.t # "undefined"
  THEN IF zone.latitudeOfOrigin.t # "undefined"
       THEN [raised |-> FALSE, kind |-> "latlong",
             latitude |-> zone.latitudeOfOrigin.n, longitude |-> zone.centralMeridian.n]
       ELSE [raised |-> FALSE, kind |-> "longitude",
             latitude |-> 0, longitude |-> zone.centralMeridian.n]
  ELSE NoOrbit

\* Variant of updateToggleAllState() that leaves the checkbox enabled.
updateToggleAllStateEnabling(vis) ==
  [label |-> "Clear All Zones",
   checked |-> Cardinality(vis) = Len(Zones),
   indeterminate |-> Cardinality(vis) > 0 /\ Cardinality(vis) < Len(Zones),
   disabled |-> FALSE]

\* updateToggleAllState()
updateToggleAllState(vis) ==
  [label |-> "Clear All Zones",
   checked |-> Cardinality(vis) = Len(Zones),
   indeterminate |-> Cardinality(vis) > 0 /\ Cardinality(vis) < Len(Zones),
   disabled |-> Cardinality(vis) = 0]

\* The members of a set of indices, ascending (the combined bounds do not
\* depend on the order in which the Set is walked).
RECURSIVE InOrder(_)
InOrder(S) ==
  IF S = {} THEN <<>>
  ELSE LET least == CHOOSE i \in S : \A j \in S : i <= j
       IN  <<least>> \o InOrder(S \ {least})

\* zone.bounds of the loaded zones: processZoneData builds them from the
\* polygon rings, and L.latLngBounds([]) for an unsupported geometry.
ZoneBounds ==
  [i \in ZoneIds |-> IF Zones[i].hasGeometry
                     THEN LatLngBounds(25 + 5 * i, 10 * i - 130, 30 + 5 * i, 10 * i - 120)
                     ELSE EmptyBounds]

\* zoomToVisibleZones(map, zoneData.zones, zoneData.visible) in a handler.
HandlerZoom(view, vis) ==
  MapAfter(view, zoomToVisibleZones(ZoneBounds, VisibleIndices(InOrder(vis))))

\* scene.remove(projection.cylinderGroup)
SceneWithout(id) == {g \in scene : g.id # id}

\* The zone checkbox was ticked: the first branch of the change handler.
ZoneSelected(idx) ==
  \E zone \in {Zones[idx]} :
  \E r \in {visualizeProjection(FreshId, zone)}, orbit \in {HandlerOrbit(zone)} :
  \E starts \in {~r.raised /\ ~orbit.raised /\ orbit.kind # "none"} :
      /\ starts => Len(runs) < MaxRuns
      /\ checked' = [checked EXCEPT ![idx] = TRUE]
      /\ onMap' = onMap \cup {idx}
      /\ visible' = visible \cup {idx}
      /\ scene' = SceneAfter(r)
      /\ lastCall' = CallRecord("change handler", zone, r,
                                IF r.raised THEN NoOrbit ELSE orbit)
      /\ projectionObjects' =
           IF ~r.raised /\ r.returned = "object"
           THEN [projectionObjects EXCEPT ![idx] = r.group.id]
           ELSE projectionObjects
      /\ IF starts
         THEN StartRun(IF orbit.kind = "latlong"
                       THEN orbitToLatLong(camera, orbit.latitude, orbit.longitude,
                                           DefaultDuration, now)
                       ELSE orbitToLongitude(camera, orbit.longitude,
                                             DefaultDuration, now))
         ELSE UNCHANGED orbitVars
      /\ toggleAll' = updateToggleAllState(visible')
      /\ mapView' = HandlerZoom(mapView, visible')
      /\ UNCHANGED <<apiCalls, libVars>>

\* Variant of the else branch that empties the scene of every cylinder group.
ZoneDeselectedClearingScene(idx) ==
  /\ checked' = [checked EXCEPT ![idx] = FALSE]
  /\ onMap' = onMap \ {idx}
  /\ visible' = visible \ {idx}
  /\ scene' = {}
  /\ projectionObjects' = [projectionObjects EXCEPT ![idx] = 0]
  /\ toggleAll' = updateToggleAllState(visible')
  /\ mapView' = HandlerZoom(mapView, visible')
  /\ UNCHANGED <<lastCall, orbitVars, apiCalls, libVars>>

\* Variant of the else branch that forgets map.removeLayer(layer).
ZoneDeselectedLeavingLayer(idx) ==
  /\ checked' = [checked EXCEPT ![idx] = FALSE]
  /\ onMap' = onMap
  /\ visible' = visible \ {idx}
  /\ scene' = IF projectionObjects[idx] # 0
              THEN SceneWithout(projectionObjects[idx]) ELSE scene
  /\ projectionObjects' = [projectionObjects EXCEPT ![idx] = 0]
  /\ toggleAll' = updateToggleAllState(visible')
  /\ mapView' = HandlerZoom(mapView, visible')
  /\ UNCHANGED <<lastCall, orbitVars, apiCalls, libVars>>

\* The zone checkbox was cleared: the else branch of the change handler.
ZoneDeselected(idx) ==
  /\ checked' = [checked EXCEPT ![idx] = FALSE]
  /\ onMap' = onMap \ {idx}
  /\ visible' = visible \ {idx}
  /\ scene' = IF projectionObjects[idx] # 0
              THEN SceneWithout(projectionObjects[idx]) ELSE scene
  /\ projectionObjects' = [projectionObjects EXCEPT ![idx] = 0]
  /\ toggleAll' = updateToggleAllState(visible')
  /\ mapView' = HandlerZoom(mapView, visible')
  /\ UNCHANGED <<lastCall, orbitVars, apiCalls, libVars>>

\* Variant in which the checkbox of a zone without a layer has the handler too.
ZoneCheckboxChangeAlwaysHandled(idx) ==
  IF ~checked[idx] THEN ZoneSelected(idx) ELSE ZoneDeselected(idx)

\* A click on the checkbox of zone idx; a zone without a layer has no handler.
ZoneCheckboxChange(idx) ==
  IF idx \notin Layers
  THEN /\ checked' = [checked EXCEPT ![idx] = ~checked[idx]]
       /\ UNCHANGED <<sceneVars, orbitVars, onMap, visible, projectionObjects,
                      toggleAll, mapView, apiCalls, libVars>>
  ELSE IF ~checked[idx] THEN ZoneSelected(idx) ELSE ZoneDeselected(idx)

\* A click on 'Clear All Zones' (possible only while it is enabled).
ClearAll ==
  LET cleared == {i \in Layers : checked[i]}
      gone == {projectionObjects[i] : i \in cleared} \ {0}
  IN  /\ ~toggleAll.disabled
      /\ checked' = [i \in ZoneIds |-> IF i \in cleared THEN FALSE ELSE checked[i]]
      /\ onMap' = onMap \ cleared
      /\ visible' = visible \ cleared
      /\ scene' = {g \in scene : g.id \notin gone}
      /\ projectionObjects' =
           [i \in ZoneIds |-> IF i \in cleared THEN 0 ELSE projectionObjects[i]]
      /\ toggleAll' = updateToggleAllState(visible')
      /\ mapView' = HandlerZoom(mapView, visible')
      /\ UNCHANGED <<lastCall, orbitVars, apiCalls, libVars>>

Next ==
  \/ \E idx \in ZoneIds : ZoneCheckboxChange(idx)
  \/ ClearAll
  \/ \E dt \in 1..MaxFrameStep : AnimationFrame(dt)

Spec == Init /\ [][Next]_vars

\* The control panel alone: the events of its checkboxes.
NextPanel ==
  \/ \E idx \in ZoneIds : ZoneCheckboxChange(idx)
  \/ ClearAll

SpecPanel == Init /\ [][NextPanel]_vars

(***************************************************************************)
(* The variant of the control panel with a 'Toggle All Zones' checkbox.    *)
(* Its zone handler requests no orbit, and its updateToggleAllState()      *)
(* leaves the checkbox enabled.                                            *)
(***************************************************************************)
\* updateToggleAllState() of this variant
updateToggleAllStateOf(box, vis) ==
  [box EXCEPT !.checked = Cardinality(vis) = Len(Zones),
              !.indeterminate = Cardinality(vis) > 0 /\ Cardinality(vis) < Len(Zones)]

\* What the Toggle All handler works on, zone after zone.
PanelState ==
  [checked |-> checked, onMap |-> onMap, visible |-> visible, scene |-> scene,
   projectionObjects |-> projectionObjects, lastCall |-> lastCall, raised |-> FALSE]

\* An identifier for a new THREE.Group of zone idx while the handler is at
\* work: idx for its first group, idx plus a multiple of the number of
\* identifiers per round for a further one.
FreshIdIn(st, idx) ==
  LET used == {g.id : g \in st.scene} \cup {st.projectionObjects[i] : i \in ZoneIds}
      round == CHOOSE n \in 0..Cardinality(used) :
                 /\ n * (Len(Zones) + 1) + idx \notin used
                 /\ \A m \in 0..(n - 1) : m * (Len(Zones) + 1) + idx \in used
  IN  round * (Len(Zones) + 1) + idx

\* The zone checkbox was ticked.
ToggleVariantSelected(idx) ==
  \E zone \in {Zones[idx]} :
  \E r \in {visualizeProjection(FreshIdIn(PanelState, idx), zone)} :
      /\ checked' = [checked EXCEPT ![idx] = TRUE]
      /\ onMap' = onMap \cup {idx}
      /\ visible' = visible \cup {idx}
      /\ scene' = SceneAfter(r)
      /\ lastCall' = CallRecord("change handler", zone, r, NoOrbit)
      /\ projectionObjects' =
           IF ~r.raised /\ r.returned = "object"
           THEN [projectionObjects EXCEPT ![idx] = r.group.id]
           ELSE projectionObjects
      /\ toggleAll' = updateToggleAllStateOf(toggleAll, visible')
      /\ mapView' = HandlerZoom(mapView, visible')
      /\ UNCHANGED <<orbitVars, apiCalls, libVars>>

\* The zone checkbox was cleared.
ToggleVariantDeselected(idx) ==
  /\ checked' = [checked EXCEPT ![idx] = FALSE]
  /\ onMap' = onMap \ {idx}
  /\ visible' = visible \ {idx}
  /\ scene' = IF projectionObjects[idx] # 0
              THEN SceneWithout(projectionObjects[idx]) ELSE scene
  /\ projectionObjects' = [projectionObjects EXCEPT ![idx] = 0]
  /\ toggleAll' = updateToggleAllStateOf(toggleAll, visible')
  /\ mapView' = HandlerZoom(mapView, visible')
  /\ UNCHANGED <<lastCall, orbitVars, apiCalls, libVars>>

\* A click on the checkbox of zone idx; a zone without a layer has no handler.
ToggleVariantCheckboxChange(idx) ==
  IF idx \notin Layers
  THEN /\ checked' = [checked EXCEPT ![idx] = ~checked[idx]]
       /\ UNCHANGED <<sceneVars, orbitVars, onMap, visible, projectionObjects,
                      toggleAll, mapView, apiCalls, libVars>>
  ELSE IF ~checked[idx] THEN ToggleVariantSelected(idx) ELSE ToggleVariantDeselected(idx)

\* The body of the Toggle All handler's loop for the checkbox of zone idx.
ToggleAllZone(st, idx, target) ==
  IF idx \notin Layers THEN st
  ELSE IF target
  THEN LET zone == Zones[idx]
           r == visualizeProjection(FreshIdIn(st, idx), zone)
       IN  [checked |-> [st.checked EXCEPT ![idx] = TRUE],
            onMap |-> st.onMap \cup {idx},
            visible |-> st.visible \cup {idx},
            scene |-> IF AddedToScene(r) THEN st.scene \cup {r.group} ELSE st.scene,
            projectionObjects |->
              IF r.raised THEN st.projectionObjects
              ELSE [st.projectionObjects EXCEPT
                      ![idx] = IF r.returned = "object" THEN r.group.id ELSE 0],
            lastCall |-> CallRecord("Toggle All handler", zone, r, NoOrbit),
            raised |-> r.raised]
  ELSE [st EXCEPT
          !.checked = [st.checked EXCEPT ![idx] = FALSE],
          !.onMap = st.onMap \ {idx},
          !.visible = st.visible \ {idx},
          !.scene = IF st.projectionObjects[idx] # 0
                    THEN {g \in st.scene : g.id # st.projectionObjects[idx]}
                    ELSE st.scene,
          !.projectionObjects = [st.projectionObjects EXCEPT ![idx] = 0]]

\* checkboxes.forEach(...): an exception leaves the loop and the handler.
RECURSIVE ToggleAllZones(_, _, _)
ToggleAllZones(order, st, target) ==
  IF order = <<>> \/ st.raised THEN st
  ELSE ToggleAllZones(Tail(order), ToggleAllZone(st, Head(order), target), target)

\* A click on 'Toggle All Zones': the click flips the checkbox and clears
\* its indeterminate state, then the handler runs.
ToggleAllChange ==
  \E target \in {~toggleAll.checked} :
  \E st \in {ToggleAllZones(InOrder(ZoneIds), PanelState, target)} :
      /\ target => Cardinality(scene) < MaxSceneGroups
      /\ checked' = st.checked
      /\ onMap' = st.onMap
      /\ visible' = st.visible
      /\ scene' = st.scene
      /\ projectionObjects' = st.projectionObjects
      /\ lastCall' = st.lastCall
      /\ toggleAll' = [toggleAll EXCEPT !.checked = target, !.indeterminate = FALSE]
      /\ mapView' = IF st.raised THEN mapView ELSE HandlerZoom(mapView, st.visible)
      /\ UNCHANGED <<orbitVars, apiCalls, libVars>>

NextToggleAll ==
  \/ \E idx \in ZoneIds : ToggleVariantCheckboxChange(idx)
  \/ ToggleAllChange

SpecToggleAll == InitToggleAll /\ [][NextToggleAll]_vars

(***************************************************************************)
(* Either variant of the control panel, told apart by the label of the     *)
(* checkbox above the zone list.                                           *)
(***************************************************************************)
InitControls == Init \/ InitToggleAll

NextControls ==
  \/ toggleAll.label = "Clear All Zones" /\ NextPanel
  \/ toggleAll.label = "Toggle All Zones" /\ NextToggleAll

SpecControls == InitControls /\ [][NextControls]_vars

(***************************************************************************)
(* Reference readings of the parameter notations, used by the properties.  *)
(***************************************************************************)
\* The white-space separated tokens of s.
RECURSIVE Tokens(_)
Tokens(s) ==
  IF s = <<>> THEN <<>>
  ELSE IF IsSpace(s[1]) THEN Tokens(Tail(s))
  ELSE LET e == CHOOSE x \in 2..(Len(s) + 1) :
                  /\ x = Len(s) + 1 \/ IsSpace(s[x])
                  /\ \A y \in 2..(x - 1) : ~IsSpace(s[y])
       IN  <<SubSeq(s, 1, e - 1)>> \o Tokens(SubSeq(s, e, Len(s)))

AllDigits(tok) == tok # <<>> /\ \A i \in 1..Len(tok) : IsDigit(tok[i])

UpperCase(c) ==
  CASE c = "n" -> "N" [] c = "s" -> "S" [] c = "e" -> "E" [] c = "w" -> "W"
    [] OTHER -> c

\* "D M [S] H" read as D + M/60 + S/3600 degrees, negative for S and W; the
\* hemisphere letter in either case.  In arc-seconds.
DmsValue(s) ==
  LET tk == Tokens(s)
      n == Len(tk)
  IN  IF /\ n \in {3, 4}
         /\ \A i \in 1..(n - 1) : AllDigits(tk[i])
         /\ Len(tk[n]) = 1
         /\ UpperCase(tk[n][1]) \in {"N", "S", "E", "W"}
      THEN LET magnitude == DigitsToInt(tk[1]) * 3600 + DigitsToInt(tk[2]) * 60
                            + (IF n = 4 THEN DigitsToInt(tk[3]) ELSE 0)
               hemi == UpperCase(tk[n][1])
           IN  [ok |-> TRUE, hemi |-> hemi,
                value |-> IF hemi \in {"S", "W"} THEN 0 - magnitude ELSE magnitude]
      ELSE [ok |-> FALSE, hemi |-> "", value |-> 0]

\* A parameter value that is a DMS string of one of the hemispheres H.
IsDms(v, H) == v.t = "string" /\ DmsValue(v.s).ok /\ DmsValue(v.s).hemi \in H

\* The latest call built (or tried to build) a Transverse Mercator cylinder.
CylinderCall == lastCall.fn # "none" /\ lastCall.type = "Transverse Mercator"

\* The rotations of a group that follow the two base rotations, by method.
ZoneRotations(group, method) ==
  SelectSeq(SubSeq(group.calls, 3, Len(group.calls)), LAMBDA c : c.op = method)

\* The angle the aligner reads from a parameter value.
AlignerAngle(v, H, neg) ==
  IF v.t = "string" /\ DmsMatch(v.s, H).found
  THEN [found |-> TRUE, angle |-> SignedAngle(DmsMatch(v.s, H), neg)]
  ELSE [found |-> FALSE, angle |-> 0]

(***************************************************************************)
(* C1.  When a Transverse Mercator cylinder is built for a zone whose      *)
(* database record gives a central meridian the aligner reads as the       *)
(* signed angle cm (east positive, west negative), the group is turned     *)
(* about Z by -cm; a latitude of origin read as lat (north positive) turns *)
(* it about Y by +lat.  "146 00 W" gives a Z rotation of +146 degrees and  *)
(* "54 00 N" a Y rotation of +54 degrees.                                  *)
(***************************************************************************)
C1_AlignmentSigns ==
  (CylinderCall /\ ~lastCall.raised) =>
    LET params == lastCall.zone.spcsParams.params
        cm == AlignerAngle(params.centralMeridian, {"W", "E"}, "W")
        lat == AlignerAngle(params.latitudeOfOrigin, {"N", "S"}, "S")
        group == lastCall.group
    IN  /\ group \in scene
        /\ cm.found => ZoneRotations(group, "rotateZ") = <<Rotate("rotateZ", 0 - cm.angle)>>
        /\ lat.found => ZoneRotations(group, "rotateY") = <<Rotate("rotateY", lat.angle)>>
        /\ params.centralMeridian = Str(<<"1", "4", "6", " ", "0", "0", " ", "W">>)
             => ZoneRotations(group, "rotateZ") = <<Rotate("rotateZ", Deg(146))>>
        /\ params.latitudeOfOrigin = Str(<<"5", "4", " ", "0", "0", " ", "N">>)
             => ZoneRotations(group, "rotateY") = <<Rotate("rotateY", Deg(54))>>

\* A cylinder built for "146 00 W" / "54 00 N" is in the scene, turned +146 and +54.
C1_Witness ==
  /\ CylinderCall
  /\ ~lastCall.raised
  /\ lastCall.zone.spcsParams.params.centralMeridian
       = Str(<<"1", "4", "6", " ", "0", "0", " ", "W">>)
  /\ lastCall.zone.spcsParams.params.latitudeOfOrigin
       = Str(<<"5", "4", " ", "0", "0", " ", "N">>)
  /\ lastCall.group \in scene
  /\ lastCall.group.calls = <<Rotate("rotateX", Deg(90)), Rotate("rotateZ", Deg(90)),
                              Rotate("rotateZ", Deg(146)), Rotate("rotateY", Deg(54))>>

(***************************************************************************)
(* C2.  A record that carries scaleFactorDenominator D (a number, a        *)
(* numeric string, or a fraction string "1/D") gives the cylinder group    *)
(* the scale (1 - 1/D, 1, 1 - 1/D).                                        *)
(***************************************************************************)
C2_ScaleFromDenominator ==
  (CylinderCall /\ ~lastCall.raised) =>
    LET d == ScaleFactorNumber(lastCall.zone.spcsParams.params.scaleFactorDenominator)
        f == [num |-> d.n - 1, den |-> d.n]
    IN  /\ lastCall.group.scale[2] = One
        /\ (~d.nan /\ d.n > 0) => lastCall.group.scale = <<f, One, f>>

(***************************************************************************)
(* C3.  A DMS string "D M [S] H", hemisphere letter in either case, is     *)
(* read as the signed value D + M/60 + S/3600 (negative for S and W), both *)
(* by the cylinder alignment and for the orbit target of the change        *)
(* handler.                                                                *)
(***************************************************************************)
C3_DmsValue ==
  (lastCall.fn = "change handler" /\ ~lastCall.raised
     /\ lastCall.zone.spcsParams.present /\ lastCall.zone.spcsParams.hasParams) =>
    LET params == lastCall.zone.spcsParams.params
        lon == IF Truthy(params.centralMeridian) THEN params.centralMeridian
               ELSE params.longitudeOfOrigin
    IN  /\ IsDms(lon, {"E", "W"}) => lastCall.orbit.longitude = DmsValue(lon.s).value
        /\ IsDms(params.latitudeOfOrigin, {"N", "S"})
             => lastCall.orbit.latitude = DmsValue(params.latitudeOfOrigin.s).value
        /\ (CylinderCall /\ IsDms(params.centralMeridian, {"E", "W"}))
             => ZoneRotations(lastCall.group, "rotateZ")
                  = <<Rotate("rotateZ", 0 - DmsValue(params.centralMeridian.s).value)>>
        /\ (CylinderCall /\ IsDms(params.latitudeOfOrigin, {"N", "S"}))
             => ZoneRotations(lastCall.group, "rotateY")
                  = <<Rotate("rotateY", DmsValue(params.latitudeOfOrigin.s).value)>>

(***************************************************************************)
(* C4.  Building a cylinder never raises on account of the parameters: a   *)
(* centralMeridian, latitudeOfOrigin or scaleFactor that is absent, is not *)
(* a string, or does not read as DMS / as a denominator is skipped, and    *)
(* the group is still added to the scene.                                  *)
(***************************************************************************)
C4_UnusableParamsSkipped ==
  CylinderCall =>
    LET params == lastCall.zone.spcsParams.params
        group == lastCall.group
    IN  /\ ~lastCall.raised
        /\ AddedToScene(lastCall)
        /\ group \in scene
        /\ ~IsDms(params.centralMeridian, {"E", "W"})
             => ZoneRotations(group, "rotateZ") = <<>>
        /\ ~IsDms(params.latitudeOfOrigin, {"N", "S"})
             => ZoneRotations(group, "rotateY") = <<>>
        /\ ScaleFactorNumber(params.scaleFactor).nan => group.scale = <<One, One, One>>

(***************************************************************************)
(* C5.  createTransverseMercatorCylinder applies its transformations in a  *)
(* fixed order: rotateX(90 deg), rotateZ(90 deg), then (as far as the      *)
(* database parameters give them) the central-meridian rotation about Z,   *)
(* the latitude-of-origin rotation about Y and the scale; the group is     *)
(* added to the scene after all of them.  The two base rotations are made  *)
(* also for a zone without database parameters.                            *)
(***************************************************************************)
StepRank(c) ==
  CASE c.op = "rotateZ" -> 1
    [] c.op = "rotateY" -> 2
    [] c.op = "scale.set" -> 3
    [] c.op = "scene.add" -> 4
    [] OTHER -> 0

C5_FixedOrder ==
  CylinderCall =>
    LET c == lastCall.calls
        n == Len(c)
    IN  /\ n >= 2
        /\ c[1] = Rotate("rotateX", Deg(90))
        /\ c[2] = Rotate("rotateZ", Deg(90))
        /\ \A i \in 3..n : StepRank(c[i]) >= 1
        /\ \A i, j \in 3..n : i < j => StepRank(c[i]) < StepRank(c[j])
        /\ ~lastCall.raised => c[n] = SceneAdd

\* A call that made all five transformations and then added the group.
C5_Witness ==
  /\ CylinderCall
  /\ Len(lastCall.calls) = 6
  /\ [i \in 1..6 |-> lastCall.calls[i].op]
       = <<"rotateX", "rotateZ", "rotateZ", "rotateY", "scale.set", "scene.add">>
  /\ lastCall.group \in scene

(***************************************************************************)
(* C6.  visualizeProjection on a zone whose projection is Lambert          *)
(* Conformal Conic, Oblique Mercator or an unknown type logs the warning   *)
(* 'Unsupported projection type', adds nothing to the scene and returns    *)
(* null.                                                                   *)
(***************************************************************************)
C6_UnsupportedWarned ==
  (lastCall.fn = "visualizeProjection" /\ lastCall.type # "Transverse Mercator") =>
    /\ lastCall.warned
    /\ lastCall.returned = "null"
    /\ ~AddedToScene(lastCall)
    /\ scene = {}

(***************************************************************************)
(* The samples one orbit run wrote to the camera, in order.                *)
(***************************************************************************)
RunWrites(i) == SelectSeq(writes, LAMBDA w : w.run = i)

Sign(x) == IF x > 0 THEN 1 ELSE IF x < 0 THEN 0 - 1 ELSE 0

(***************************************************************************)
(* C7.  An orbit run ends with a terminal sample: it is the sample of the  *)
(* first tick whose elapsed time is >= duration, no sample follows it, and *)
(* it sets theta to exactly the requested longitude and (orbitToLatLong)   *)
(* phi to exactly 90 degrees - latitude; latitude 90 gives phi 0 and       *)
(* latitude -90 gives phi 180 degrees.                                     *)
(***************************************************************************)
C7_TerminalSampleExact ==
  \A i \in DOMAIN runs :
    LET r == runs[i]
        ws == RunWrites(i)
    IN  /\ \A k \in 1..Len(ws) :
             /\ ws[k].terminal <=> (ws[k].time - r.startTime >= r.duration)
             /\ ws[k].terminal =>
                  /\ k = Len(ws)
                  /\ ws[k].theta = r.longitude
                  /\ r.kind = "latlong" =>
                       /\ ws[k].phi = Deg(90) - r.latitude
                       /\ r.latitude = Deg(90) => ws[k].phi = 0
                       /\ r.latitude = Deg(-90) => ws[k].phi = Deg(180)
        /\ r.finished <=> (ws # <<>> /\ ws[Len(ws)].terminal)

\* A run of positive duration towards latitude 90 wrote interpolated samples
\* and then its terminal sample, which left the camera at phi 0.
C7_Witness ==
  \E i \in DOMAIN runs :
    /\ runs[i].finished
    /\ runs[i].duration > 0
    /\ runs[i].kind = "latlong"
    /\ runs[i].latitude = Deg(90)
    /\ Len(RunWrites(i)) >= 3
    /\ \E k \in DOMAIN writes :
         /\ writes[k].run = i
         /\ writes[k].terminal
         /\ writes[k].phi = 0
         /\ writes[k].theta = runs[i].longitude

(***************************************************************************)
(* C8.  The deltaTheta an orbit function computes lies in [-180, 180]      *)
(* degrees and is congruent to target - current modulo 360 degrees, so the *)
(* interpolation takes the shorter arc; from 170 degrees to -170 degrees   *)
(* it is +20 degrees.                                                      *)
(***************************************************************************)
C8_ShortestArc ==
  \A i \in DOMAIN runs :
    LET r == runs[i]
    IN  /\ r.deltaTheta >= Deg(-180)
        /\ r.deltaTheta <= Deg(180)
        /\ Mod(r.deltaTheta - (r.longitude - r.originalTheta), Deg(360)) = 0
        /\ (r.originalTheta = Deg(170) /\ r.longitude = Deg(-170))
             => r.deltaTheta = Deg(20)

\* A run was started at theta = 170 degrees towards -170 degrees.
C8_Witness ==
  \E i \in DOMAIN runs :
    /\ runs[i].originalTheta = Deg(170)
    /\ runs[i].longitude = Deg(-170)
    /\ runs[i].deltaTheta = Deg(20)

C10_Supersedes ==
  \A k \in DOMAIN writes : writes[k].run = writes[k].newest

(***************************************************************************)
(* A regional code as a number: a non-negative number, or a string of at   *)
(* most four digits.                                                       *)
(***************************************************************************)
RegionalCode(v) ==
  CASE v.t = "number" /\ v.n > 0 /\ v.n < 10000 -> [ok |-> TRUE, n |-> v.n]
    [] v.t = "string" /\ AllDigits(v.s) /\ Len(v.s) <= 4 ->
         [ok |-> TRUE, n |-> DigitsToInt(v.s)]
    [] OTHER -> [ok |-> FALSE, n |-> 0]

Code101 == {Str(<<"1", "0", "1">>), Num(101), Str(Fips0101)}

(***************************************************************************)
(* C11.  getSPCSZoneParameters pads every numeric or short-string code to  *)
(* four characters before the lookup: two calls with the same datum whose  *)
(* codes denote the same number return the same result, and "101", 101 and *)
(* "0101" all return the record stored under "0101" of the datum.          *)
(***************************************************************************)
C11_PaddedLookup ==
  \A i, j \in DOMAIN lookups :
    LET a == lookups[i]
        b == lookups[j]
    IN  /\ (a.datum = b.datum /\ RegionalCode(a.fipsCode).ok /\ RegionalCode(b.fipsCode).ok
              /\ RegionalCode(a.fipsCode).n = RegionalCode(b.fipsCode).n)
             => a.result = b.result
        /\ (a.fipsCode \in Code101 /\ a.datum \in {DatumArg("NAD83"), DatumArg("NAD27")})
             => a.result = RecordResult(spcsZoneParameters[a.datum.name].zones[Fips0101])

\* "101" and the number 101 were both looked up under NAD27 and gave the record.
C11_Witness ==
  \E i, j \in DOMAIN lookups :
    /\ lookups[i].fipsCode = Str(<<"1", "0", "1">>)
    /\ lookups[j].fipsCode = Num(101)
    /\ lookups[i].datum = DatumArg("NAD27")
    /\ lookups[j].datum = DatumArg("NAD27")
    /\ lookups[i].result.t = "record"
    /\ lookups[i].result.record.params.units = "US survey feet"
    /\ lookups[j].result = lookups[i].result

(***************************************************************************)
(* C12.  getSPCSZoneParameters returns a record exactly when the code is   *)
(* given and its padded form is a code of the requested datum (NAD83 when  *)
(* no datum is given); in every other case - missing code, unknown datum,  *)
(* code not in the datum - it returns null.                                *)
(***************************************************************************)
C12_NullWhenAbsent ==
  \A i \in DOMAIN lookups :
    LET l == lookups[i]
        datum == IF l.datum.t = "undefined" THEN "NAD83" ELSE l.datum.name
        stored == /\ Truthy(l.fipsCode)
                  /\ datum \in {"NAD83", "NAD27"}
                  /\ PadStart(toString(l.fipsCode), 4, "0")
                       \in DOMAIN spcsZoneParameters[datum].zones
    IN  IF stored
        THEN l.result = RecordResult(spcsZoneParameters[datum].zones[
                                       PadStart(toString(l.fipsCode), 4, "0")])
        ELSE l.result = NullResult

(***************************************************************************)
(* C13.  The database is read-only after the load: whatever has been       *)
(* called, the database in memory equals the dataset, every lookup made    *)
(* returned what the same lookup returns on the dataset, and the records   *)
(* the processed zones carry are records of the dataset.                   *)
(***************************************************************************)
C13_RepositoryReadOnly ==
  /\ repository = spcsZoneParameters
  /\ \A i \in DOMAIN lookups :
       lookups[i].result
         = getSPCSZoneParameters(spcsZoneParameters, lookups[i].fipsCode, lookups[i].datum)
  /\ \A i \in DOMAIN processed :
       processed[i].spcsParams.hasParams =>
         \E k \in DOMAIN spcsZoneParameters["NAD83"].zones :
           /\ spcsZoneParameters["NAD83"].zones[k].params = processed[i].spcsParams.params
           /\ repository["NAD83"].zones[k].params = processed[i].spcsParams.params

\* The feed was processed, a zone with a database record was visualized and a
\* lookup returned a record: the database still equals the dataset.
C13_Witness ==
  /\ processed # <<>>
  /\ \E i \in DOMAIN processed : processed[i].spcsParams.hasParams
  /\ lastCall.fn = "visualizeProjection"
  /\ lastCall.zone.spcsParams.hasParams
  /\ \E i \in DOMAIN lookups : lookups[i].result.t = "record"
  /\ repository = spcsZoneParameters

(***************************************************************************)
(* Reference readings of the strings formatDDMMSS is given.                *)
(***************************************************************************)
\* s is "D M H" or "D M S H": digit tokens and a one-letter hemisphere.
IsDmsString(s) ==
  LET tk == Tokens(s)
      n == Len(tk)
  IN  /\ n \in {3, 4}
      /\ \A i \in 1..(n - 1) : AllDigits(tk[i])
      /\ Len(tk[n]) = 1
      /\ tk[n][1] \in Hemispheres

\* s is a decimal number: an optional sign, digits, a point, digits.
IsDecimalString(s) ==
  LET b == IF s # <<>> /\ s[1] \in {"-", "+"} THEN 2 ELSE 1
      e == DigitRunEnd(s, b)
      f == DigitRunEnd(s, e + 1)
  IN  /\ e > b
      /\ e <= Len(s)
      /\ s[e] = "."
      /\ f > e + 1
      /\ f = Len(s) + 1

(***************************************************************************)
(* C14.  formatDDMMSS renders "D M [S] H" as D, degree sign, M, prime,     *)
(* then the seconds with a double prime exactly when the seconds value is  *)
(* not zero (so not when they are absent or written "0" or "00"), then the *)
(* hemisphere in upper case.                                               *)
(***************************************************************************)
C14_SecondsOmittedWhenZero ==
  \A i \in DOMAIN formats :
    LET v == formats[i].input
        tk == Tokens(v.s)
        n == Len(tk)
    IN  (v.t = "string" /\ IsDmsString(v.s)) =>
          formats[i].output
            = tk[1] \o <<DegreeSign, " ">> \o tk[2] \o <<Prime>>
              \o (IF n = 4 /\ DigitsToInt(tk[3]) # 0
                  THEN <<" ">> \o tk[3] \o <<DoublePrime>> ELSE <<>>)
              \o <<" ", ToUpperCase(tk[n][1])>>

(***************************************************************************)
(* C15.  formatDDMMSS applied to its own result returns that result        *)
(* unchanged; in particular the formatted form of a DMS string with zero   *)
(* seconds survives being formatted again.                                 *)
(***************************************************************************)
C15_FormatIdempotent ==
  \A i \in DOMAIN formats :
    \A j \in DOMAIN formats :
      formats[j].input = Str(formats[i].output) => formats[j].output = formats[i].output

\* "85 50 W" was formatted, and its result was formatted again.
C15_Witness ==
  /\ Len(formats) = 2
  /\ formats[1].input = Str(<<"8", "5", " ", "5", "0", " ", "W">>)
  /\ formats[1].output = <<"8", "5", DegreeSign, " ", "5", "0", Prime, " ", "W">>
  /\ formats[2].input = Str(formats[1].output)
  /\ formats[2].output = formats[1].output

(***************************************************************************)
(* C16.  formatDDMMSS recovers from malformed input: a value that is not a *)
(* non-empty string gives "Not specified"; a string that neither matches   *)
(* the DMS pattern nor is a decimal number comes back unchanged; a decimal *)
(* number comes back with exactly four fractional digits and a degree      *)
(* sign.                                                                   *)
(***************************************************************************)
C16_MalformedRecovered ==
  \A i \in DOMAIN formats :
    LET v == formats[i].input
        out == formats[i].output
        n == Len(out)
    IN  IF v.t # "string" \/ v.s = <<>> THEN out = NotSpecified
        ELSE IF FormatMatchFrom(v.s, 1).found THEN TRUE
        ELSE IF IsDecimalString(v.s)
        THEN /\ n >= 7
             /\ out[n] = DegreeSign
             /\ out[n - 5] = "."
             /\ \A k \in (n - 4)..(n - 1) : IsDigit(out[k])
             /\ \A k \in 1..(n - 6) : IsDigit(out[k]) \/ (k = 1 /\ out[k] = "-")
        ELSE out = v.s

(***************************************************************************)
(* latLonToPoint                                                           *)
(***************************************************************************)
\* The coordinate r, and the coordinate -r.
Plus(r) == [sign |-> 1, r |-> r, f1 |-> 90, f2 |-> 90, flattening |-> 0]

Minus(r) == [sign |-> 0 - 1, r |-> r, f1 |-> 90, f2 |-> 90, flattening |-> 0]

Vector(x, y, z) == [x |-> x, y |-> y, z |-> z]

IsCardinal(lat, lon) ==
  \/ lat = 90
  \/ lat = 0 - 90
  \/ lat = 0 /\ lon \in {0, 90, 0 - 90}

CardinalPoint(lat, lon, r) ==
  CASE lat = 90 -> Vector(ZeroCoordinate, Plus(r), ZeroCoordinate)
    [] lat = 0 - 90 -> Vector(ZeroCoordinate, Minus(r), ZeroCoordinate)
    [] lat = 0 /\ lon = 0 -> Vector(ZeroCoordinate, ZeroCoordinate, Plus(r))
    [] lat = 0 /\ lon = 90 -> Vector(Plus(r), ZeroCoordinate, ZeroCoordinate)
    [] lat = 0 /\ lon = 0 - 90 -> Vector(Minus(r), ZeroCoordinate, ZeroCoordinate)

\* C17: latLonToPoint(lat, lon, r) puts the cardinal points on the documented
\* axes, scaled by r: (0, 0) on +Z at (0, 0, r), (0, 90) on +X at (r, 0, 0),
\* (0, -90) at (-r, 0, 0), latitude 90 at (0, r, 0) and latitude -90 at
\* (0, -r, 0) whatever the longitude.
C17_CardinalPoints ==
  (lastPoint.called /\ IsCardinal(lastPoint.lat, lastPoint.lon))
    => lastPoint.point = CardinalPoint(lastPoint.lat, lastPoint.lon, lastPoint.radius)

C17_Witness ==
  /\ lastPoint.called
  /\ lastPoint.lat = 0
  /\ lastPoint.lon = 90
  /\ lastPoint.radius = SemiMajorAxis
  /\ lastPoint.point.x = Plus(SemiMajorAxis)
  /\ lastPoint.point.z = ZeroCoordinate

\* sin(ref)^2 in quarters, for the reference angles whose square is rational.
SquareQuarters(ref) ==
  CASE ref = 0 -> 0
    [] ref = 30 -> 1
    [] ref = 45 -> 2
    [] ref = 60 -> 3
    [] ref = 90 -> 4

\* The square of a coordinate, in sixteenths of r^2.
SquareSixteenths(c) ==
  IF c.sign = 0 THEN 0 ELSE SquareQuarters(c.f1) * SquareQuarters(c.f2)

SumOfSquaresSixteenths(point) ==
  SquareSixteenths(point.x) + SquareSixteenths(point.y) + SquareSixteenths(point.z)

AbsDiff(m, n) == IF m >= n THEN m - n ELSE n - m

\* C18: for every latitude in [-90, 90], longitude in (-180, 180] and radius
\* r, the point returned by latLonToPoint has x^2 + y^2 + z^2 = r^2 within a
\* relative tolerance of 1e-6 (here: |sum - r^2| * 10^6 <= r^2, in sixteenths
\* of r^2).
C18_SphereIdentity ==
  lastPoint.called
    => 1000000 * AbsDiff(SumOfSquaresSixteenths(lastPoint.point), 16) <= 16

C18_Witness ==
  /\ lastPoint.called
  /\ lastPoint.lat = 45
  /\ lastPoint.lon = 0 - 120
  /\ lastPoint.point.x.sign = 0 - 1
  /\ lastPoint.point.y.sign = 1
  /\ lastPoint.point.z.sign = 0 - 1
  /\ SumOfSquaresSixteenths(lastPoint.point) = 16

(***************************************************************************)
(* The graticule                                                           *)
(***************************************************************************)
IsParallel(line) == line.kind = "parallel"

IsMeridian(line) == line.kind = "meridian"

\* The sample of the ellipsoid at (lat, lon): the sphere point of radius a
\* with its y multiplied by b/a = 1 - f.
EllipsoidSample(lat, lon, a, f) ==
  LET p == latLonToPoint(lat, lon, a)
  IN  Vector(p.x, IF p.y.sign = 0 THEN p.y ELSE [p.y EXCEPT !.flattening = f], p.z)

YScaled(point, f) ==
  /\ point.x.flattening = 0
  /\ point.z.flattening = 0
  /\ point.y.sign # 0 => point.y.flattening = f

\* C19: the graticule has one parallel for each latitude -90, -75, ..., 90
\* (13 rings), each sampled every 2 degrees of longitude from 0 to 360 with
\* coinciding first and last points, and one meridian for each longitude
\* 0, 15, ..., 345 (24 arcs), each an open arc sampled from latitude -90 to
\* 90; every point has its Y scaled by b/a; exactly the latitude-0 parallel
\* and the longitude-0 meridian are primary.
C19_Graticule ==
  ellipsoid.constructed =>
    LET parallels == SelectSeq(ellipsoid.graticule, IsParallel)
        meridians == SelectSeq(ellipsoid.graticule, IsMeridian)
        a == ellipsoid.a
        f == ellipsoid.f
    IN  /\ Len(ellipsoid.graticule) = Len(parallels) + Len(meridians)
        /\ Len(parallels) = 13
        /\ \A i \in 1..Len(parallels) :
             LET ring == parallels[i]
             IN  /\ ring.at = 15 * (i - 1) - 90
                 /\ Len(ring.points) = 181
                 /\ \A n \in 1..Len(ring.points) :
                      /\ ring.points[n] = EllipsoidSample(ring.at, 2 * (n - 1), a, f)
                      /\ YScaled(ring.points[n], f)
                 /\ ring.points[1] = ring.points[Len(ring.points)]
                 /\ ring.primary <=> ring.at = 0
        /\ Len(meridians) = 24
        /\ \A j \in 1..Len(meridians) :
             LET arc == meridians[j]
             IN  /\ arc.at = 15 * (j - 1)
                 /\ Len(arc.points) = 91
                 /\ \A n \in 1..Len(arc.points) :
                      /\ arc.points[n] = EllipsoidSample(2 * (n - 1) - 90, arc.at, a, f)
                      /\ YScaled(arc.points[n], f)
                 /\ arc.points[1] # arc.points[Len(arc.points)]
                 /\ arc.primary <=> arc.at = 0

C19_Witness ==
  /\ ellipsoid.constructed
  /\ ellipsoid.a = SemiMajorAxis
  /\ ellipsoid.f = Flattening
  /\ Len(ellipsoid.graticule) = 37
  /\ ellipsoid.graticule[7].primary
  /\ ellipsoid.graticule[7].points[46] =
       Vector(Plus(SemiMajorAxis), ZeroCoordinate, ZeroCoordinate)
  /\ ellipsoid.graticule[13].points[1].y = [Plus(SemiMajorAxis) EXCEPT !.flattening = Flattening]
  /\ ellipsoid.graticule[14].primary
  /\ ellipsoid.graticule[37].at = 345

(***************************************************************************)
(* Database record against GeoJSON properties                              *)
(***************************************************************************)
HasRecordType(zone) == zone.spcsParams.present /\ zone.spcsParams.projectionType # ""

HasRecordParams(zone) == zone.spcsParams.present /\ zone.spcsParams.hasParams

\* The switch of visualizeProjection went to the cylinder builder.
DispatchedToCylinder(call) == call.calls # <<>> \/ call.raised

RecordValues(zone) ==
  {zone.spcsParams.params.centralMeridian, zone.spcsParams.params.longitudeOfOrigin,
   zone.spcsParams.params.latitudeOfOrigin, zone.spcsParams.params.scaleFactorDenominator,
   zone.spcsParams.params.falseEasting}

FeedValues(zone) == {zone.centralMeridian, zone.latitudeOfOrigin}

ReportedValues(call) == {call.details[i].value : i \in 2..Len(call.details)}

\* C20: the database record takes precedence over the feed.  With a record
\* that has a projectionType, visualizeProjection dispatches on that type
\* whatever the GeoJSON projection says; with a record that has params, the
\* reported parameters are the record's; the GeoJSON projection and
\* properties are used only when the record lacks the corresponding data.
C20_RecordPrecedence ==
  lastCall.fn = "visualizeProjection" =>
    LET zone == lastCall.zone
    IN  /\ HasRecordType(zone) =>
             /\ lastCall.type = LongName(zone.spcsParams.projectionType)
             /\ DispatchedToCylinder(lastCall) <=> zone.spcsParams.projectionType = "TM"
        /\ ~HasRecordType(zone) =>
             /\ lastCall.type =
                  IF zone.projection # "" THEN LongName(zone.projection)
                  ELSE "Unknown Projection"
             /\ DispatchedToCylinder(lastCall) <=> zone.projection = "TM"
        /\ HasRecordParams(zone) =>
             /\ lastCall.details[1].label = "Parameters (from database):"
             /\ ReportedValues(lastCall) = {v \in RecordValues(zone) : Truthy(v)}
        /\ ~HasRecordParams(zone) =>
             /\ lastCall.details[1].label = "Parameters (from GeoJSON):"
             /\ ReportedValues(lastCall) = {v \in FeedValues(zone) : v.t # "undefined"}

C20_Witness ==
  /\ lastCall.fn = "visualizeProjection"
  /\ lastCall.zone.projection = "LCC"
  /\ lastCall.zone.spcsParams.projectionType = "TM"
  /\ lastCall.zone.centralMeridian = Num(0 - 304200)
  /\ HasRecordParams(lastCall.zone)
  /\ lastCall.type = "Transverse Mercator"
  /\ lastCall.returned = "object"
  /\ Len(lastCall.details) = 4
  /\ lastCall.details[2].value = Str(<<"8", "5", " ", "5", "0", " ", "W">>)

(***************************************************************************)
(* zoomToVisibleZones                                                      *)
(***************************************************************************)
NothingVisible(visibleIndices) ==
  ~visibleIndices.defined \/ visibleIndices.indices = <<>>

\* C21: every call of zoomToVisibleZones makes exactly one of map.setView and
\* map.fitBounds: with the visible set absent or empty it resets the map to
\* the default view and does not fit bounds; with at least one visible zone
\* it fits the combined bounds and does not reset the view.
C21_ExactlyOneMapCall ==
  lastZoom.called =>
    /\ Len(lastZoom.calls) = 1
    /\ NothingVisible(lastZoom.visibleIndices) => lastZoom.calls[1] = DefaultView
    /\ ~NothingVisible(lastZoom.visibleIndices) => lastZoom.calls[1].call = "fitBounds"

(***************************************************************************)
(* The control panel                                                       *)
(***************************************************************************)
\* The zones with a layer whose checkbox is checked.
CheckedZones == {i \in Layers : checked[i]}

\* A step that flips the checkbox of idx and of no other zone.
TogglesOnly(idx) ==
  /\ checked'[idx] # checked[idx]
  /\ \A j \in ZoneIds \ {idx} : checked'[j] = checked[j]

\* C22: zoneData.visible always equals the set of zones whose layer is on
\* the map and the set of zones with a layer whose checkbox is checked; a
\* zone toggled on is added, and a zone toggled off removed, in the step
\* that flips its checkbox, and that step leaves the visibility of every
\* other zone as it was.
C22_IndependentVisibility ==
  /\ [](visible = onMap /\ visible = CheckedZones)
  /\ [][\A idx \in Layers :
          TogglesOnly(idx) =>
            /\ (idx \in visible') <=> checked'[idx]
            /\ (idx \in onMap') <=> checked'[idx]
            /\ visible' \ {idx} = visible \ {idx}
            /\ onMap' \ {idx} = onMap \ {idx}]_vars

\* Three zones were shown, one of them was hidden again, and the checkbox of
\* the zone without a layer is checked.
C22_Witness ==
  /\ visible = {1, 3}
  /\ onMap = {1, 3}
  /\ checked[5]
  /\ ~checked[2]
  /\ lastCall.zone.name = "Georgia East"

(***************************************************************************)
(* Object names                                                            *)
(***************************************************************************)
\* C23: zone identifiers are unique based on the zone name: two cylinders
\* built for zones with different names have different identifiers, group
\* names and mesh names.
C23_UniqueIdentifiers ==
  \A i, j \in DOMAIN named :
    named[i].zone # named[j].zone =>
      /\ named[i].zoneId # named[j].zoneId
      /\ named[i].group # named[j].group
      /\ named[i].mesh # named[j].mesh

\* The cylinder groups of zone i in the scene.
GroupsOf(i) == {g \in scene : g.zone = Zones[i].name}

\* Selecting zone i yields a projection object (a Transverse Mercator cylinder).
HasCylinder(i) == visualizeProjection(1, Zones[i]).returned = "object"

\* C24: the scene always holds exactly one cylinder group, the tracked one,
\* for each visible zone that has a Transverse Mercator visualization, and
\* none for any other zone; a step that deselects a zone removes that zone's
\* group and projectionObjects entry and leaves those of the others.
C24_PerZoneTracking ==
  /\ [](\A i \in ZoneIds :
          IF i \in visible /\ HasCylinder(i)
          THEN /\ Cardinality(GroupsOf(i)) = 1
               /\ \A g \in GroupsOf(i) : projectionObjects[i] = g.id
          ELSE /\ GroupsOf(i) = {}
               /\ projectionObjects[i] = 0)
  /\ [][\A idx \in Layers :
          (TogglesOnly(idx) /\ ~checked'[idx]) =>
            /\ scene' = scene \ GroupsOf(idx)
            /\ \A j \in ZoneIds \ {idx} : projectionObjects'[j] = projectionObjects[j]]_vars

\* Three cylinders were built and the one of Georgia East was removed again.
C24_Witness ==
  /\ Cardinality(scene) = 2
  /\ GroupsOf(1) # {}
  /\ GroupsOf(3) # {}
  /\ projectionObjects[2] = 0
  /\ ~checked[2]
  /\ lastCall.zone.name = "Georgia East"
  /\ lastCall.returned = "object"

(***************************************************************************)
(* Overlapping orbit runs                                                  *)
(***************************************************************************)
\* The position a run leaves the camera at: its target angles at the radius
\* (and, for orbitToLongitude, the polar angle) it captured when it started.
RunTarget(r) ==
  [radius |-> r.spherical.radius,
   theta |-> r.targetTheta,
   phi |-> IF r.kind = "latlong" THEN r.targetPhi ELSE r.originalPhi]

\* The position in writes of the terminal sample of a finished run.
TerminalWrite(i) == CHOOSE k \in DOMAIN writes : writes[k].run = i /\ writes[k].terminal

AllFinished == runs # <<>> /\ \A i \in DOMAIN runs : runs[i].finished

\* The samples a step added to the record.
NewWrites == SubSeq(writes', Len(writes) + 1, Len(writes'))

\* C25: while orbit runs overlap, every run that has not reached its end
\* writes the camera once in every frame and a finished run writes no more;
\* once all runs have finished the camera is at the target of the run whose
\* terminal tick came last, and if all runs have the same duration that is
\* the most recently started run.
C25_LastToFinishWins ==
  /\ [](AllFinished =>
          /\ \E i \in DOMAIN runs :
               /\ \A j \in DOMAIN runs : TerminalWrite(j) <= TerminalWrite(i)
               /\ camera = RunTarget(runs[i])
          /\ (\A i, j \in DOMAIN runs : runs[i].duration = runs[j].duration)
               => camera = RunTarget(runs[Len(runs)]))
  /\ [][now' > now =>
          \A i \in DOMAIN runs :
            LET mine == SelectSeq(NewWrites, LAMBDA w : w.run = i)
            IN  IF runs[i].finished THEN mine = <<>>
                ELSE /\ Len(mine) = 1
                     /\ mine[1].time = now'
                     /\ mine[1].terminal <=> now' >= runs[i].endTime]_vars

\* Two overlapping runs of the same positive duration, started at different
\* times towards different targets, have both finished.
C25_Witness ==
  /\ Len(runs) = 2
  /\ AllFinished
  /\ runs[1].duration > 0
  /\ runs[1].duration = runs[2].duration
  /\ runs[1].startTime < runs[2].startTime
  /\ runs[2].startTime < runs[1].endTime
  /\ RunTarget(runs[1]) # RunTarget(runs[2])
  /\ camera = RunTarget(runs[2])

(***************************************************************************)
(* What an orbit run leaves alone                                          *)
(***************************************************************************)
\* C26: every sample an orbit run writes, the terminal one included, has the
\* radius the camera had when the run started, and every sample of an
\* orbitToLongitude run also has the polar angle the camera had then.
C26_KeepsRadiusAndPhi ==
  /\ [](\A i \in DOMAIN runs :
          \A k \in DOMAIN RunWrites(i) :
            /\ RunWrites(i)[k].radius = RunWrites(i)[1].radius
            /\ runs[i].kind = "longitude" => RunWrites(i)[k].phi = RunWrites(i)[1].phi)
  /\ [][Len(runs') > Len(runs) =>
          LET first == SelectSeq(writes', LAMBDA w : w.run = Len(runs'))[1]
          IN  /\ first.radius = camera.radius
              /\ runs'[Len(runs')].kind = "longitude" => first.phi = camera.phi]_vars

\* An orbitToLongitude run that started with the camera off the equator has
\* written intermediate samples and its terminal one.
C26_Witness ==
  \E i \in DOMAIN runs :
    /\ runs[i].kind = "longitude"
    /\ runs[i].finished
    /\ runs[i].originalPhi # Deg(90)
    /\ runs[i].deltaTheta # 0
    /\ Len(RunWrites(i)) >= 3
    /\ camera.phi = runs[i].originalPhi
    /\ camera.theta = runs[i].targetTheta

(***************************************************************************)
(* Termination of orbit runs                                               *)
(***************************************************************************)
Requested(i) == \E k \in DOMAIN rafQueue : rafQueue[k] = i

\* C27: as long as frames keep coming every orbit run reaches its terminal
\* tick (again and again all the runs started so far have finished, and a
\* finished run stays finished); a finished run has no frame requested and
\* writes the camera no more; a run of duration 0 finishes in its first tick, inside the call:
\* it writes the target once, with lookAt(0, 0, 0) and controls.update(),
\* and requests no frame.
C27_RunsTerminate ==
  /\ []<>(\A i \in DOMAIN runs : runs[i].finished)
  /\ [](\A i \in DOMAIN runs : runs[i].finished => ~Requested(i))
  /\ [][\A i \in DOMAIN runs : runs[i].finished =>
          /\ runs'[i].finished
          /\ SelectSeq(NewWrites, LAMBDA w : w.run = i) = <<>>]_vars
  /\ [][(Len(runs') > Len(runs) /\ runs'[Len(runs')].duration = 0) =>
          /\ runs'[Len(runs')].finished
          /\ rafQueue' = rafQueue
          /\ camera' = RunTarget(runs'[Len(runs')])
          /\ Len(NewWrites) = 1
          /\ NewWrites[1].run = Len(runs')
          /\ NewWrites[1].terminal
          /\ NewWrites[1].lookAt = <<0, 0, 0>>
          /\ NewWrites[1].controlsUpdated]_vars

\* A run of positive duration has finished after several frames and a run of
\* duration 0 to another target after a single tick; no frame is requested.
C27_Witness ==
  /\ Len(runs) = 2
  /\ runs[1].duration > 0
  /\ runs[1].finished
  /\ Len(RunWrites(1)) >= 3
  /\ runs[2].duration = 0
  /\ runs[2].finished
  /\ Len(RunWrites(2)) = 1
  /\ RunTarget(runs[2]) # RunTarget(runs[1])
  /\ camera = RunTarget(runs[2])
  /\ rafQueue = <<>>

(***************************************************************************)
(* The 'Toggle All Zones' variant: cylinders per zone                      *)
(***************************************************************************)
\* C28: in the variant with 'Toggle All Zones', after any sequence of zone
\* toggles and Toggle All changes the scene holds at most one cylinder group
\* per zone and none for a zone that is not visible.
C28_AtMostOneGroupPerZone ==
  \A i \in ZoneIds :
    /\ Cardinality(GroupsOf(i)) <= 1
    /\ i \notin visible => GroupsOf(i) = {}

\* A zone that was selected on its own and then by Toggle All has two groups.
C28_Untracked ==
  \E i \in ZoneIds : Cardinality(GroupsOf(i)) = 2 /\ i \in visible /\ toggleAll.checked

(***************************************************************************)
(* The 'Clear All Zones' checkbox                                          *)
(***************************************************************************)
\* C29: the 'Clear All' checkbox is disabled exactly when zoneData.visible
\* is empty; right after the Clear All handler no zone is visible, no
\* projection object is tracked, and the checkbox is unchecked, not
\* indeterminate and disabled.
C29_ClearAllDisabledIffNothingVisible ==
  /\ [](toggleAll.disabled <=> visible = {})
  /\ [][ClearAll =>
          /\ visible' = {}
          /\ \A i \in ZoneIds : projectionObjects'[i] = 0
          /\ ~toggleAll'.checked
          /\ ~toggleAll'.indeterminate
          /\ toggleAll'.disabled]_vars

\* Two zones were selected and everything has been cleared again; the ticked
\* checkbox of the zone without a layer was left alone.
C29_Witness ==
  /\ Len(runs) = 2
  /\ visible = {}
  /\ onMap = {}
  /\ scene = {}
  /\ \A i \in ZoneIds : projectionObjects[i] = 0
  /\ \A i \in Layers : ~checked[i]
  /\ checked[5]
  /\ toggleAll.disabled
  /\ ~toggleAll.checked
  /\ ~toggleAll.indeterminate
  /\ mapView = DefaultView

(***************************************************************************)
(* Zones whose layer could not be created                                  *)
(***************************************************************************)
\* The zones for which createZoneLayer raised.
FailedZones == ZoneIds \ Layers

\* C30: a zone whose layer creation failed is never in zoneData.visible, never
\* has a layer on the map and never has a 3D projection object, whatever the
\* checkbox, Toggle All and Clear All events; a click on its checkbox changes
\* nothing but that checkbox, Toggle All and Clear All leave its checkbox
\* alone, and the other zones keep working: toggling one of them shows or
\* hides it, Toggle All shows or hides them all and Clear All hides them all.
C30_FailedZoneConfined ==
  /\ [](\A i \in FailedZones :
          /\ i \notin visible
          /\ i \notin onMap
          /\ projectionObjects[i] = 0
          /\ GroupsOf(i) = {})
  /\ [][/\ \A i \in FailedZones :
             TogglesOnly(i) =>
               UNCHANGED <<scene, onMap, visible, projectionObjects, toggleAll, mapView>>
        /\ \A idx \in Layers :
             TogglesOnly(idx) =>
               /\ (idx \in visible') <=> checked'[idx]
               /\ (idx \in onMap') <=> checked'[idx]
               /\ (checked'[idx] /\ HasCylinder(idx)) =>
                    \E g \in GroupsOf(idx)' : projectionObjects'[idx] = g.id
        /\ (ToggleAllChange \/ ClearAll) =>
             /\ \A i \in FailedZones : checked'[i] = checked[i]
             /\ visible' = IF toggleAll'.checked THEN Layers ELSE {}
             /\ onMap' = visible'
             /\ \A idx \in Layers : checked'[idx] = toggleAll'.checked]_vars

\* 'Toggle All Zones' was ticked while the checkbox of the zone without a
\* layer was ticked: every other zone is shown, that zone is not.
C30_Witness ==
  /\ toggleAll.label = "Toggle All Zones"
  /\ toggleAll.checked
  /\ FailedZones = {5}
  /\ checked[5]
  /\ visible = Layers
  /\ onMap = Layers
  /\ projectionObjects[5] = 0
  /\ \A idx \in Layers : HasCylinder(idx) => projectionObjects[idx] # 0
  /\ lastCall.fn = "Toggle All handler"

====
